---- MODULE Spec2Model ----
(***************************************************************************)
(* Monumator: the inventory confirmation workflow.                         *)
(*                                                                         *)
(* The model follows run_inventory_confirmation_async                      *)
(* (report_workflows/daily/inventory_confirmation.py and                   *)
(* report_workflows/inventory_confirmation.py) and                         *)
(* InventoryConfirmationScraper.get_incomplete_routes                      *)
(* (web_automation/inventory_confirmation_scraper.py) statement by         *)
(* statement.  Text is a sequence of one-character strings, so strip,      *)
(* startswith, isdigit, int, upper, lower and the substring test are       *)
(* computed rather than assumed.  The portal (pages, tables, links) is the *)
(* environment: its contents are drawn from small sets.                    *)
(*                                                                         *)
(* The parts the workflow rests on are modelled each with a specification  *)
(* of its own over the same variables: BaseScraper's setup_browser and     *)
(* cleanup_browser with sys.stderr (SpecBrowser), get_previous_business_day*)
(* with the calendar arithmetic of datetime (SpecDate), SeedBrowser's      *)
(* login and navigation with the URLs they build (SpecSeed), and the       *)
(* waiting loops (SpecWait).  The other programs of the repository have    *)
(* theirs: the Excel report of the workflow (SpecReport), the discovery    *)
(* scan run again on one page (SpecRescan), the download of the inventory  *)
(* adjustment report (SpecIad), the concurrent downloads (SpecPool), the   *)
(* prerequisites of the stockout report (SpecStockout) and the console     *)
(* menu (SpecMenu).                                                        *)
(***************************************************************************)
EXTENDS Integers, Sequences, FiniteSets, TLC

(***************************************************************************)
(* Bounds of the model.                                                    *)
(***************************************************************************)
\* data rows of the summary table after the leading rows
MaxDataRows == 2
\* rows of a detail table after its header row
MaxAssetRows == 2
\* calls of setup_browser() and of cleanup_browser() on one scraper
MaxSetups == 2
MaxCleanups == 2
\* days, from FirstRunDay on, on which the program is run
MaxRunDays == 180
\* navigations of one SeedBrowser session after its login
MaxNavigations == 2
\* the largest timeout, in seconds, and the largest max_retries a waiting
\* operation is called with
MaxTimeout == 4
\* calls of the discovery scan against one summary page
MaxScans == 2
MaxReports == 2
MaxOptions == 3

(***************************************************************************)
(* Program constants.                                                      *)
(***************************************************************************)
\* range(6, len(rows)): the first six rows are never looked at
Offset == 6
\* len(cells) >= 5 in the discovery scan
MinCells == 5
\* len(cells) >= 3 in the detail table
MinAssetCells == 3

(***************************************************************************)
(* Text.                                                                   *)
(***************************************************************************)
LowerAlpha == <<"a","b","c","d","e","f","g","h","i","j","k","l","m",
                "n","o","p","q","r","s","t","u","v","w","x","y","z">>
UpperAlpha == <<"A","B","C","D","E","F","G","H","I","J","K","L","M",
                "N","O","P","Q","R","S","T","U","V","W","X","Y","Z">>

AsciiDigits == <<"0","1","2","3","4","5","6","7","8","9">>

\* "sup2" stands for the one character U+00B2 (superscript two): str.isdigit
\* accepts it, int() rejects it.
SuperscriptTwo == "sup2"

IsSpace(c) == c \in {" ", "\t", "\n"}

UpperChar(c) ==
  IF \E n \in 1..26 : LowerAlpha[n] = c
  THEN UpperAlpha[CHOOSE n \in 1..26 : LowerAlpha[n] = c]
  ELSE c

LowerChar(c) ==
  IF \E n \in 1..26 : UpperAlpha[n] = c
  THEN LowerAlpha[CHOOSE n \in 1..26 : UpperAlpha[n] = c]
  ELSE c

\* str.upper()
upper(s) == [n \in 1..Len(s) |-> UpperChar(s[n])]

\* str.lower()
lower(s) == [n \in 1..Len(s) |-> LowerChar(s[n])]

RECURSIVE lstrip(_)
lstrip(s) == IF s # <<>> /\ IsSpace(Head(s)) THEN lstrip(Tail(s)) ELSE s

RECURSIVE rstrip(_)
rstrip(s) ==
  IF s # <<>> /\ IsSpace(s[Len(s)]) THEN rstrip(SubSeq(s, 1, Len(s) - 1)) ELSE s

\* str.strip()
strip(s) == rstrip(lstrip(s))

\* str.startswith(p)
startswith(s, p) == Len(s) >= Len(p) /\ SubSeq(s, 1, Len(p)) = p

\* p in s
contains(s, p) ==
  \E n \in 0..(Len(s) - Len(p)) : SubSeq(s, n + 1, n + Len(p)) = p

IsAsciiDigit(c) == \E n \in 1..10 : AsciiDigits[n] = c

DigitValue(c) == (CHOOSE n \in 1..10 : AsciiDigits[n] = c) - 1

\* str.isdigit(): at least one character and every character is a digit
isdigit(s) ==
  /\ s # <<>>
  /\ \A n \in 1..Len(s) : IsAsciiDigit(s[n]) \/ s[n] = SuperscriptTwo

\* int(s) raises ValueError
int_raises(s) == s = <<>> \/ \E n \in 1..Len(s) : ~IsAsciiDigit(s[n])

RECURSIVE int(_)
\* int(s) for a string of decimal digits
int(s) ==
  IF s = <<>> THEN 0
  ELSE 10 * int(SubSeq(s, 1, Len(s) - 1)) + DigitValue(s[Len(s)])

(***************************************************************************)
(* The portal's tables.  A cell carries its text; reading a cell whose     *)
(* element is gone raises.  A row carries its cells; enumerating the cells *)
(* of a row whose element is gone raises.  The name cell of a summary row  *)
(* may be an anchor ("a"), may hold an anchor next to the text ("td"), or  *)
(* have no anchor ("none").                                                *)
(***************************************************************************)
Cell(t) == [text |-> t, ok |-> TRUE]
BadCell == [text |-> <<>>, ok |-> FALSE]
Row(cs, l) == [cells |-> cs, link |-> l, ok |-> TRUE]
BadRow == [cells |-> <<>>, link |-> "none", ok |-> FALSE]

Blank == Cell(<<>>)
RoutePrefix == <<"R","t">>

\* a five-cell summary row: the name in column 1, the missing count in column 4
SummaryRow(name, count, l) ==
  Row(<<Blank, Cell(name), Blank, Blank, Cell(count)>>, l)

HeaderRow == Row(<<>>, "none")


(***************************************************************************)
(* Sample texts of the summary table.                                      *)
(***************************************************************************)
NameTexts ==
  { <<"R","t"," ","3">>, <<" ","R","t","1"," ">>, <<"N","o","t","e","s",":">>,
    <<"r","t","1">>, <<"R">> }

CountTexts ==
  { <<"4">>, <<" ","1","2"," ">>, <<"0">>, <<>>, <<"+","4">>, <<"sup2">> }

\* every kind of row the discovery scan distinguishes
ScanRows ==
  { SummaryRow(n, c, "a") : n \in NameTexts, c \in CountTexts }
  \cup { BadRow,
         Row(<<Blank, Cell(<<"R","t","7">>), Blank, Cell(<<"4">>)>>, "a"),
         Row(<<Blank, Cell(<<"R","t","8">>), Blank, Blank, Cell(<<"0","5">>),
               Blank>>, "a"),
         Row(<<Blank, BadCell, Blank, Blank, Cell(<<"4">>)>>, "none"),
         Row(<<Blank, Cell(<<"R","t","9">>), Blank, Blank, BadCell>>, "a") }

\* the rows of the summary table the whole workflow is run against
WorkflowRows ==
  { SummaryRow(<<"R","t","1">>, <<"4">>, "a"),
    SummaryRow(<<" ","R","t","2">>, <<"1"," ">>, "none"),
    BadRow }

LeadRows == { HeaderRow, SummaryRow(<<"R","t","0">>, <<"9">>, "a") }

Repeat(r, n) == [m \in 1..n |-> r]

SeqsUpTo(S, n) == UNION { [1..m -> S] : m \in 0..n }

\* summary tables: fewer rows than the offset, or the leading rows and then
\* up to MaxDataRows rows of data
SummaryTables(lead, data) ==
  { Repeat(l, m) : l \in lead, m \in 0..Offset }
  \cup { Repeat(l, Offset) \o d : l \in lead, d \in SeqsUpTo(data, MaxDataRows) }

(***************************************************************************)
(* Sample rows of a route's detail table: identifier, location, status and *)
(* a fourth cell holding the asset's type.                                 *)
(***************************************************************************)
DetailRow(id, loc, status, type) ==
  Row(<<Cell(id), Cell(loc), Cell(status), Cell(type)>>, "none")

Lobby == <<"L","o","b","b","y">>
Snack == <<"S","N","A","C","K">>

DetailRows ==
  { DetailRow(<<"a","1">>, Lobby, <<"M","i","s","s","i","n","g"," ">>, Snack),
    DetailRow(<<"f","f","-","1">>, Lobby, <<"m","i","s","s","i","n","g">>, Snack),
    DetailRow(<<"A","2">>, Lobby, <<"n","o","t"," ","d","o","n","e">>,
              <<"S","t","a","t","i","c">>),
    DetailRow(<<"A","3">>, Lobby, <<"Y","E","S","/","N","O">>, Snack),
    Row(<<Cell(<<"A","4">>), Cell(Lobby)>>, "none"),
    BadRow }

\* the rows of the detail tables the whole workflow is run against
WorkflowDetailRows ==
  { DetailRow(<<"a","1">>, Lobby, <<"M","i","s","s","i","n","g"," ">>, Snack),
    DetailRow(<<"f","f","-","1">>, Lobby, <<"m","i","s","s","i","n","g">>, Snack),
    BadRow }

\* a detail page's table: nothing, or a header row and up to MaxAssetRows rows
DetailTables(data) ==
  { <<>> } \cup { <<HeaderRow>> \o d : d \in SeqsUpTo(data, MaxAssetRows) }

(***************************************************************************)
(* State.                                                                  *)
(***************************************************************************)
VARIABLES
  pc,                   \* position in run_inventory_confirmation_async
  variant,              \* "daily" or "legacy": which of the two workflow files
  summary_table,        \* the summary page's table rows (environment)
  portal_rows,          \* the rows detail tables are made of (environment)
  scraper,              \* FALSE while scraper is None
  rows,                 \* rows, as read by get_incomplete_routes
  i,                    \* index of the discovery loop (0-based, as in the code)
  routes_with_missing,  \* sequence of <<route_name, missing_count>>
  selected_rows,        \* history: indexes i whose row was appended
  route_data,           \* sequence of route_info records
  k,                    \* position of the per-route loop (1-based)
  route_info,           \* the route_info under construction
  depth,                \* pages above the summary page in the history
  asset_rows,           \* asset_rows of the current route
  j,                    \* position in asset_rows[1:] (1-based)
  pending,              \* exception the workflow function exits with
  error,                \* str(e) of the caught exception
  cleanup_calls,        \* number of calls of scraper.cleanup_browser()
  result,               \* what the workflow function returns
  audit,                \* history: one record per processed route
  cur_audit,            \* history: record of the route being processed
  events,               \* history: the steps of the workflow that have happened
  browser,              \* a BaseScraper object and the process's sys.stderr
  dates,                \* the clock and the value of get_previous_business_day()
  seed,                 \* a SeedBrowser object and its driver's session
  wait,                 \* one call of a waiting operation
  report,               \* one call of generate_report
  iad,                  \* one call of download_iad_report
  pool,                 \* one call of download_multiple_reports_concurrent
  stockout,             \* one call of get_stockout_processing_status
  menu,                 \* a MenuNavigator and the keys pressed
  scans                 \* history: what earlier calls of the discovery scan found

vars == <<pc, variant, summary_table, portal_rows, scraper, rows, i, routes_with_missing,
          selected_rows, route_data, k, route_info, depth, asset_rows, j,
          pending, error, cleanup_calls, result, audit, cur_audit,
          events, browser, dates, seed, wait, report, iad, pool, stockout,
          menu, scans>>

\* the run's fixed surroundings
env == <<variant, summary_table, portal_rows, browser, dates, seed, wait,
         report, iad, pool, stockout, menu, scans>>

NoRouteInfo == [route |-> <<>>, status |-> "", missing_count |-> 0,
                incomplete_assets |-> <<>>]

\* raised: an exception reached the route's except clause
\* lookup: "found", "absent" or "raised", the outcome of lines 90-98
\* on_summary: the session showed the summary page at the lookup
\* link: the summary page holds a link for the route
\* clicks, backs: calls of click() and go_back()
\* seen, kept: detail rows handled, and those appended to incomplete_assets
NoAudit == [raised |-> FALSE, lookup |-> "none", clicks |-> 0, backs |-> 0,
            on_summary |-> TRUE, link |-> FALSE, seen |-> <<>>, kept |-> <<>>]

\* no BaseScraper, clock, SeedBrowser or waiting call takes part
NoBrowser == [pc |-> "idle"]
NoDates == [pc |-> "idle"]
NoSeed == [pc |-> "idle"]
NoWait == [pc |-> "idle"]
NoReport == [pc |-> "idle"]
NoIad == [pc |-> "idle"]
NoPool == [pc |-> "idle"]
NoStockout == [pc |-> "idle"]
NoMenu == [pc |-> "idle"]

\* the parts modelled after the waiting operations take no part
RestIdle ==
  /\ report = NoReport
  /\ iad = NoIad
  /\ pool = NoPool
  /\ stockout = NoStockout
  /\ menu = NoMenu

\* the variables of those parts
rest == <<report, iad, pool, stockout, menu>>

InitLocals ==
  /\ rows = <<>>
  /\ i = 0
  /\ routes_with_missing = <<>>
  /\ selected_rows = {}
  /\ route_data = <<>>
  /\ k = 0
  /\ route_info = NoRouteInfo
  /\ depth = 0
  /\ asset_rows = <<>>
  /\ j = 0
  /\ pending = "none"
  /\ error = ""
  /\ cleanup_calls = 0
  /\ result = [kind |-> "none", success |-> FALSE, error |-> "", route_data |-> <<>>]
  /\ audit = <<>>
  /\ cur_audit = NoAudit
  /\ events = {}
  /\ scans = <<>>

InitCommon ==
  /\ variant \in {"daily", "legacy"}
  /\ InitLocals
  /\ browser = NoBrowser
  /\ dates = NoDates
  /\ seed = NoSeed
  /\ wait = NoWait
  /\ RestIdle

\* the workflow takes no part: the state of a run of one component alone
WorkflowIdle ==
  /\ InitLocals
  /\ pc = "idle"
  /\ variant = "daily"
  /\ scraper = FALSE
  /\ summary_table = <<>>
  /\ portal_rows = {}

\* the state at the start of run_inventory_confirmation_async
Init ==
  /\ InitCommon
  /\ pc = "construct"
  /\ scraper = FALSE
  /\ summary_table \in SummaryTables({HeaderRow}, WorkflowRows)
  /\ portal_rows = WorkflowDetailRows

\* the state in which get_incomplete_routes has reached the summary page
InitScan ==
  /\ InitCommon
  /\ pc = "rows"
  /\ scraper = TRUE
  /\ summary_table \in SummaryTables(LeadRows, ScanRows)
  /\ portal_rows = WorkflowDetailRows

(***************************************************************************)
(* Exceptions.  An Exception raised in the try block of the workflow is    *)
(* caught by its except clause; an interrupt (KeyboardInterrupt,           *)
(* CancelledError) is not an Exception and only runs the finally clause.   *)
(***************************************************************************)
Raise(msg) ==
  /\ pc' = "except"
  /\ error' = msg

(***************************************************************************)
(* get_incomplete_routes: the discovery scan (lines 41-71).                *)
(***************************************************************************)
\* a scan that also takes a count of zero
count_not_negative(missing_count) == missing_count >= 0

\* line 63: if missing_count > 0
count_selected(missing_count) == missing_count > 0

\* a scan that also looks at the cell before the route name
first_cell_blank_too(cells) ==
  Len(cells) >= MinCells /\ cells[1].ok /\ cells[1].text = <<>>

\* line 50: if len(cells) >= 5
enough_cells(cells) == Len(cells) >= MinCells

\* lines 59-61: missing_count = 0; if missing_text.isdigit(): int(missing_text)
parse_count(missing_text) ==
  IF isdigit(missing_text) THEN int(missing_text) ELSE 0

\* lines 59-61 raise: int() of a digit the decimal parser rejects
parse_raises(missing_text) == isdigit(missing_text) /\ int_raises(missing_text)

\* lines 47-65: the body of the try block for one row.
\* raised: an exception reached the except clause of line 67
\* selected: line 64 was executed, with entry
check_row(row) ==
  LET skip  == [raised |-> FALSE, selected |-> FALSE, entry |-> <<>>]
      throw == [raised |-> TRUE, selected |-> FALSE, entry |-> <<>>]
  IN
  IF ~row.ok THEN throw
  ELSE IF ~enough_cells(row.cells) THEN skip
  ELSE IF ~row.cells[2].ok \/ ~row.cells[5].ok THEN throw
  ELSE
    LET route_name   == strip(row.cells[2].text)
        missing_text == strip(row.cells[5].text)
    IN
    IF ~startswith(route_name, RoutePrefix) THEN skip
    ELSE IF parse_raises(missing_text) THEN throw
    ELSE IF count_selected(parse_count(missing_text))
    THEN [raised |-> FALSE, selected |-> TRUE,
          entry |-> <<route_name, parse_count(missing_text)>>]
    ELSE skip

\* line 45: for i in range(6, len(rows))
first_row == Offset

\* a scan that a failing row ends
scan_stops_on_error(outcome) == ~outcome.raised

\* lines 67-69: except Exception: continue
scan_continues(outcome) == TRUE

\* line 41: rows = await self.page.locator("table tr").all()
GetRows ==
  /\ pc = "rows"
  /\ \/ /\ rows' = summary_table
        /\ i' = first_row
        /\ pc' = "scan"
        /\ events' = events \cup {"rows"}
        /\ UNCHANGED error
     \/ /\ Raise("locator")
        /\ UNCHANGED <<rows, i, events>>
  /\ UNCHANGED <<env, scraper, routes_with_missing,
                 selected_rows, route_data, k, route_info, depth, asset_rows,
                 j, pending, cleanup_calls, result, audit, cur_audit>>

\* lines 45-69: one iteration of the discovery loop
ScanRow ==
  /\ pc = "scan"
  /\ i < Len(rows)
  /\ LET outcome == check_row(rows[i + 1]) IN
       /\ IF outcome.selected
          THEN /\ routes_with_missing' = Append(routes_with_missing, outcome.entry)
               /\ selected_rows' = selected_rows \cup {i}
          ELSE UNCHANGED <<routes_with_missing, selected_rows>>
       /\ IF scan_continues(outcome)
          THEN /\ i' = i + 1
               /\ UNCHANGED <<pc, error>>
          ELSE /\ Raise("row")
               /\ UNCHANGED i
  /\ UNCHANGED <<env, events, scraper, rows, route_data, k,
                 route_info, depth, asset_rows, j, pending, cleanup_calls,
                 result, audit, cur_audit>>

\* line 45 exhausted, lines 71-73: route_data = []
ScanDone ==
  /\ pc = "scan"
  /\ i >= Len(rows)
  /\ pc' = "route"
  /\ k' = 1
  /\ route_data' = <<>>
  /\ UNCHANGED <<env, events, scraper, rows, i, routes_with_missing,
                 selected_rows, route_info, depth, asset_rows, j, pending,
                 error, cleanup_calls, result, audit, cur_audit>>

(***************************************************************************)
(* get_incomplete_routes: processing of one route (lines 76-135).          *)
(***************************************************************************)
\* line 115: the excluded markers
ExclusionKeywords ==
  { <<"F","F">>, <<"S","T","A","T","I","C">>, <<"C","O","F","F","E","E">>,
    <<"C","O","N","D","I","M","E","N","T","S">> }

\* line 116: the status words
StatusWords ==
  { <<"m","i","s","s","i","n","g">>,
    <<"i","n","c","o","m","p","l","e","t","e">>,
    <<"n","o","t"," ","d","o","n","e">> }

\* line 115: any(x in asset_id for x in ['FF', 'STATIC', 'COFFEE', 'CONDIMENTS'])
excluded(asset_id) == \E x \in ExclusionKeywords : contains(asset_id, x)

\* line 116: 'missing' in status or 'incomplete' in status or 'not done' in status
status_matches(status) == \E w \in StatusWords : contains(status, w)

\* lines 108-121: the body of the loop over asset_rows[1:] for one row
check_asset_row(row) ==
  LET skip  == [raised |-> FALSE, collected |-> FALSE, asset |-> <<>>]
      throw == [raised |-> TRUE, collected |-> FALSE, asset |-> <<>>]
  IN
  IF ~row.ok THEN throw
  ELSE IF Len(row.cells) < MinAssetCells THEN skip
  ELSE IF ~row.cells[1].ok \/ ~row.cells[2].ok \/ ~row.cells[3].ok THEN throw
  ELSE
    LET asset_id == upper(strip(row.cells[1].text))
        location == strip(row.cells[2].text)
        status   == lower(strip(row.cells[3].text))
    IN
    IF ~excluded(asset_id) /\ status_matches(status)
    THEN [raised |-> FALSE, collected |-> TRUE,
          asset |-> <<[asset_id |-> asset_id, location |-> location,
                       status |-> status]>>]
    ELSE skip

\* lines 79-85: the route_info a route starts with
new_route_info(entry) ==
  [route |-> entry[1], status |-> "Incomplete", missing_count |-> entry[2],
   incomplete_assets |-> <<>>]

\* a missing link reported as a failure
no_link_as_error(info) == [info EXCEPT !.status = "Error"]

\* lines 127-129: no clickable link
no_link_info(info) == [info EXCEPT !.status = "No Link Found"]

\* lines 131-133: except Exception
error_info(info) == [info EXCEPT !.status = "Error"]

\* a loop that keeps no result for a route that failed
append_unless_error(data, info) ==
  IF info.status = "Error" THEN data ELSE Append(data, info)

\* line 135: route_data.append(route_info)
append_result(data, info) == Append(data, info)

\* line 90: a:has-text('{route_name}') on the summary page
anchor_count(table, route_name) ==
  \E n \in 1..Len(table) :
    /\ table[n].link = "a"
    /\ Len(table[n].cells) >= 2
    /\ contains(table[n].cells[2].text, route_name)

\* line 94: td:has-text('{route_name}') a on the summary page
cell_anchor_count(table, route_name) ==
  \E n \in 1..Len(table) :
    /\ table[n].link \in {"a", "td"}
    /\ Len(table[n].cells) >= 2
    /\ contains(table[n].cells[2].text, route_name)

\* lines 90-98 on the summary page: route_link.count() > 0 at line 98
link_on_summary(table, route_name) ==
  anchor_count(table, route_name) \/ cell_anchor_count(table, route_name)

\* line 135 and the loop header of line 76: the route is done
EndRoute(info, rec) ==
  /\ route_data' = append_result(route_data, info)
  /\ audit' = Append(audit, [rec EXCEPT !.seen = <<>>, !.kept = <<>>])
  /\ k' = k + 1
  /\ pc' = "route"
  /\ route_info' = NoRouteInfo
  /\ cur_audit' = NoAudit
  /\ asset_rows' = <<>>
  /\ j' = 0

\* lines 131-135: an exception inside the route's try block
RouteError == EndRoute(error_info(route_info), [cur_audit EXCEPT !.raised = TRUE])

\* lines 76-85: the next route of routes_with_missing
BeginRoute ==
  /\ pc = "route"
  /\ k <= Len(routes_with_missing)
  /\ route_info' = new_route_info(routes_with_missing[k])
  /\ cur_audit' = NoAudit
  /\ pc' = "lookup"
  /\ UNCHANGED <<env, events, scraper, rows, i, routes_with_missing,
                 selected_rows, route_data, k, depth, asset_rows, j, pending,
                 error, cleanup_calls, result, audit>>

\* the frame of get_incomplete_routes is left: its locals are gone
FrameGone ==
  /\ rows' = <<>>
  /\ i' = 0
  /\ routes_with_missing' = <<>>
  /\ selected_rows' = {}
  /\ k' = 0
  /\ route_info' = NoRouteInfo
  /\ asset_rows' = <<>>
  /\ j' = 0
  /\ audit' = <<>>
  /\ cur_audit' = NoAudit

\* line 137: return route_data
ReturnRoutes ==
  /\ pc = "route"
  /\ k > Len(routes_with_missing)
  /\ pc' = "check"
  /\ FrameGone
  /\ UNCHANGED <<env, events, scraper, route_data,
                 depth, pending, error, cleanup_calls, result>>

\* lines 90-98 and 127-129: look the link up on the page the session shows.
\* On the summary page the table decides; on any other page the page does.
Lookup ==
  /\ pc = "lookup"
  /\ LET rec == [cur_audit EXCEPT
                   !.on_summary = (depth = 0),
                   !.link = link_on_summary(summary_table, route_info.route)]
     IN
     \E found \in BOOLEAN :
       /\ depth = 0 => found = rec.link
       /\ \/ /\ found
             /\ pc' = "click"
             /\ cur_audit' = [rec EXCEPT !.lookup = "found"]
             /\ UNCHANGED <<route_data, audit, k, route_info, asset_rows, j>>
          \/ /\ ~found
             /\ EndRoute(no_link_info(route_info),
                         [rec EXCEPT !.lookup = "absent"])
          \/ EndRoute(error_info(route_info),
                      [rec EXCEPT !.lookup = "raised", !.raised = TRUE])
  /\ UNCHANGED <<env, events, scraper, rows, i, routes_with_missing,
                 selected_rows, depth, pending, error, cleanup_calls, result>>

\* line 100: await route_link.click()
Click ==
  /\ pc = "click"
  /\ \/ /\ depth' = depth + 1
        /\ pc' = "asset_rows"
        /\ cur_audit' = [cur_audit EXCEPT !.clicks = @ + 1]
        /\ UNCHANGED <<route_data, audit, k, route_info, asset_rows, j>>
     \/ /\ depth' \in {depth, depth + 1}
        /\ EndRoute(error_info(route_info),
                    [cur_audit EXCEPT !.clicks = @ + 1, !.raised = TRUE])
  /\ UNCHANGED <<env, events, scraper, rows, i, routes_with_missing,
                 selected_rows, pending, error, cleanup_calls, result>>

\* line 105: asset_rows = await self.page.locator("table tr").all()
GetAssetRows ==
  /\ pc = "asset_rows"
  /\ \/ /\ asset_rows' \in DetailTables(portal_rows)
        /\ j' = 1
        /\ pc' = "assets"
        /\ UNCHANGED <<route_data, audit, k, route_info, cur_audit>>
     \/ RouteError
  /\ UNCHANGED <<env, events, scraper, rows, i, routes_with_missing,
                 selected_rows, depth, pending, error, cleanup_calls, result>>

\* lines 107-121: one row of asset_rows[1:]
AssetRow ==
  /\ pc = "assets"
  /\ j + 1 <= Len(asset_rows)
  /\ LET row     == asset_rows[j + 1]
         outcome == check_asset_row(row)
     IN
     IF outcome.raised
     THEN RouteError
     ELSE /\ route_info' =
               [route_info EXCEPT !.incomplete_assets = @ \o outcome.asset]
          /\ cur_audit' =
               [cur_audit EXCEPT
                  !.seen = Append(@, row),
                  !.kept = IF outcome.collected THEN Append(@, row) ELSE @]
          /\ j' = j + 1
          /\ UNCHANGED <<pc, route_data, audit, k, asset_rows>>
  /\ UNCHANGED <<env, events, scraper, rows, i, routes_with_missing,
                 selected_rows, depth, pending, error, cleanup_calls, result>>

\* line 124: await self.page.go_back()
GoBack ==
  /\ pc = "assets"
  /\ j + 1 > Len(asset_rows)
  /\ \/ /\ depth' = depth - 1
        /\ EndRoute(route_info, [cur_audit EXCEPT !.backs = @ + 1])
     \/ /\ depth' \in {depth, depth - 1}
        /\ EndRoute(error_info(route_info),
                    [cur_audit EXCEPT !.backs = @ + 1, !.raised = TRUE])
  /\ UNCHANGED <<env, events, scraper, rows, i, routes_with_missing,
                 selected_rows, pending, error, cleanup_calls, result>>

\* get_incomplete_routes is called again on the same page: what the call
\* before it found is kept aside, and the new call starts with fresh locals
ScanAgain ==
  /\ pc = "route"
  /\ k = 1
  /\ Len(scans) < MaxScans - 1
  /\ scans' = Append(scans, routes_with_missing)
  /\ pc' = "rows"
  /\ rows' = <<>>
  /\ i' = 0
  /\ routes_with_missing' = <<>>
  /\ selected_rows' = {}
  /\ k' = 0
  /\ UNCHANGED <<variant, summary_table, portal_rows, browser, dates, seed,
                 wait, rest, events, scraper, route_data, route_info, depth,
                 asset_rows, j, pending, error, cleanup_calls, result, audit,
                 cur_audit>>

NextScan == GetRows \/ ScanRow \/ ScanDone

SpecScan == InitScan /\ [][NextScan]_vars

\* rows for the repeated scan: names and counts that select and that do
\* not, with and without a link, and with text in the other cells
RescanRows ==
  { SummaryRow(n, c, l) :
      n \in { <<"R","t"," ","3">>, <<" ","R","t","1"," ">>, <<"N","o","t","e","s",":">> },
      c \in { <<"4">>, <<" ","1","2"," ">>, <<"0">> },
      l \in { "a", "none" } }
  \cup { BadRow,
         Row(<<Blank, Cell(<<"R","t","7">>), Blank, Cell(<<"4">>)>>, "a"),
         Row(<<Cell(<<"R","t","5">>), Cell(<<"R","t","6">>), Cell(<<"7">>),
               Cell(<<"8">>), Cell(<<"9">>), Cell(<<"R","t","4">>)>>, "a"),
         Row(<<Cell(<<"R","t","5">>), Cell(<<"x">>), Cell(<<"7">>),
               Cell(<<"8">>), Cell(<<"9">>), Blank>>, "none") }

InitRescan ==
  /\ InitCommon
  /\ pc = "rows"
  /\ scraper = TRUE
  /\ summary_table \in SummaryTables({HeaderRow}, RescanRows)
  /\ portal_rows = WorkflowDetailRows

\* the discovery scan run MaxScans times against one summary page
NextRescan == GetRows \/ ScanRow \/ ScanDone \/ ScanAgain

SpecRescan == InitRescan /\ [][NextRescan]_vars


(***************************************************************************)
(* run_inventory_confirmation_async.                                       *)
(***************************************************************************)
NoResult == [kind |-> "none", success |-> FALSE, error |-> "", route_data |-> <<>>]

\* daily/inventory_confirmation.py line 57: a bare return;
\* inventory_confirmation.py lines 58-68: the results dictionary
success_result(v, data) ==
  IF v = "daily"
  THEN [kind |-> "None", success |-> FALSE, error |-> "", route_data |-> <<>>]
  ELSE [kind |-> "dict", success |-> TRUE, error |-> "", route_data |-> data]

\* the dictionary returned by the except clause
failure_result(msg) ==
  [kind |-> "dict", success |-> FALSE, error |-> msg, route_data |-> <<>>]

\* a finally clause that cleans up whether or not the scraper exists
cleanup_unguarded(s) == TRUE

\* finally: if scraper:
cleanup_guard(s) == s

\* a workflow that goes on whatever setup_and_login() returned
login_unchecked(ret) == TRUE

\* the workflow proceeds when setup_and_login() returned a true value
login_proceeds(ret) == ret

\* a get_incomplete_routes that reads the table wherever the session is
navigate_unchecked(ret) == TRUE

\* get_incomplete_routes proceeds when navigate_to_route_summary() returned
\* a true value
navigate_proceeds(ret) == ret

\* a workflow that goes on to the report whatever discovery returned
any_route_data(data) == TRUE

\* the workflow proceeds to the report when route_data is not empty
has_route_data(data) == data # <<>>

WorkflowFrame ==
  UNCHANGED <<env, rows, i, routes_with_missing,
              selected_rows, route_data, k, route_info, depth, asset_rows, j,
              audit, cur_audit>>

\* scraper = InventoryConfirmationScraper(headless=headless); the constructor
\* raises when the credentials are not configured
Construct ==
  /\ pc = "construct"
  /\ \/ /\ scraper' = TRUE
        /\ pc' = "login"
        /\ UNCHANGED error
     \/ /\ Raise("SEED_USERNAME and SEED_PASSWORD must be set")
        /\ UNCHANGED scraper
  /\ UNCHANGED <<pending, cleanup_calls, result, events>>
  /\ WorkflowFrame

\* if not await scraper.setup_and_login(): raise Exception(...)
Login ==
  /\ pc = "login"
  /\ \/ \E ret \in BOOLEAN :
          /\ events' = events \cup {IF ret THEN "login_true" ELSE "login_false"}
          /\ IF login_proceeds(ret)
             THEN /\ pc' = "date"
                  /\ UNCHANGED error
             ELSE Raise("Failed to setup browser and login to SEED")
     \/ /\ Raise("setup_and_login")
        /\ events' = events \cup {"login_raised"}
  /\ UNCHANGED <<scraper, pending, cleanup_calls, result>>
  /\ WorkflowFrame

\* target_date = scraper.get_previous_business_day()
TargetDate ==
  /\ pc = "date"
  /\ pc' = "navigate"
  /\ events' = events \cup {"date"}
  /\ UNCHANGED <<scraper, pending, error, cleanup_calls, result>>
  /\ WorkflowFrame

\* get_incomplete_routes lines 32-33
Navigate ==
  /\ pc = "navigate"
  /\ \E ret \in BOOLEAN :
       /\ events' = events \cup {IF ret THEN "navigate_true" ELSE "navigate_false"}
       /\ IF navigate_proceeds(ret)
          THEN /\ pc' = "rows"
               /\ UNCHANGED error
          ELSE Raise("Failed to navigate to routes summary")
  /\ UNCHANGED <<scraper, pending, cleanup_calls, result>>
  /\ WorkflowFrame

\* if not route_data: raise Exception("No route data found")
CheckRouteData ==
  /\ pc = "check"
  /\ IF has_route_data(route_data)
     THEN /\ pc' = "excel"
          /\ UNCHANGED error
     ELSE Raise("No route data found")
  /\ events' = events \cup {IF route_data = <<>> THEN "no_routes" ELSE "routes"}
  /\ UNCHANGED <<scraper, pending, cleanup_calls, result>>
  /\ WorkflowFrame

\* the Excel report and the return statement of the try block
Excel ==
  /\ pc = "excel"
  /\ \/ /\ result' = success_result(variant, route_data)
        /\ pc' = "finally"
        /\ events' = events \cup {"excel", "excel_written"}
        /\ UNCHANGED error
     \/ /\ Raise("excel")
        /\ events' = events \cup {"excel"}
        /\ UNCHANGED result
  /\ UNCHANGED <<scraper, pending, cleanup_calls>>
  /\ WorkflowFrame

\* except Exception as e: return {'success': False, 'error': str(e), ...}
Except ==
  /\ pc = "except"
  /\ result' = failure_result(error)
  /\ pc' = "finally"
  /\ UNCHANGED <<scraper, pending, error, cleanup_calls, events>>
  /\ WorkflowFrame

TryBody ==
  {"construct", "login", "date", "navigate", "rows", "scan", "route", "lookup",
   "click", "asset_rows", "assets", "check", "excel"}

\* KeyboardInterrupt or cancellation inside the try block: not an Exception
Interrupt ==
  /\ pc \in TryBody
  /\ pending' = "interrupt"
  /\ pc' = "finally"
  /\ FrameGone
  /\ route_data' = <<>>
  /\ UNCHANGED <<env, events, scraper, depth, error,
                 cleanup_calls, result>>

\* finally: if scraper: await scraper.cleanup_browser()
Finally ==
  /\ pc = "finally"
  /\ IF cleanup_guard(scraper)
     THEN /\ cleanup_calls' = cleanup_calls + 1
          /\ \/ UNCHANGED <<pending, result>>
             \/ /\ pending' = "cleanup"
                /\ result' = NoResult
     ELSE UNCHANGED <<cleanup_calls, pending, result>>
  /\ pc' = "done"
  /\ UNCHANGED <<scraper, error, events>>
  /\ WorkflowFrame

Next ==
  \/ Construct \/ Login \/ TargetDate \/ Navigate
  \/ GetRows \/ ScanRow \/ ScanDone
  \/ BeginRoute \/ ReturnRoutes \/ Lookup \/ Click \/ GetAssetRows
  \/ AssetRow \/ GoBack
  \/ CheckRouteData \/ Excel \/ Except \/ Interrupt \/ Finally

Spec == Init /\ [][Next]_vars


(***************************************************************************)
(* The extraction of one route's assets on its own, over every kind of     *)
(* detail row: the session has clicked the link of route Rt1.              *)
(***************************************************************************)
OneRouteTable == Repeat(HeaderRow, Offset) \o <<SummaryRow(<<"R","t","1">>, <<"4">>, "a")>>

InitAssets ==
  /\ variant \in {"daily", "legacy"}
  /\ summary_table = OneRouteTable
  /\ portal_rows = DetailRows
  /\ scraper = TRUE
  /\ rows = OneRouteTable
  /\ i = Len(OneRouteTable)
  /\ routes_with_missing = <<check_row(OneRouteTable[Offset + 1]).entry>>
  /\ selected_rows = {Offset}
  /\ route_data = <<>>
  /\ k = 1
  /\ route_info = new_route_info(routes_with_missing[1])
  /\ depth = 1
  /\ asset_rows = <<>>
  /\ j = 0
  /\ pending = "none"
  /\ error = ""
  /\ cleanup_calls = 0
  /\ result = NoResult
  /\ audit = <<>>
  /\ cur_audit = [NoAudit EXCEPT !.lookup = "found", !.link = TRUE, !.clicks = 1]
  /\ events = {"login_true", "date", "navigate_true", "rows"}
  /\ scans = <<>>
  /\ browser = NoBrowser
  /\ dates = NoDates
  /\ seed = NoSeed
  /\ wait = NoWait
  /\ RestIdle
  /\ pc = "asset_rows"

NextAssets == GetAssetRows \/ AssetRow \/ GoBack

SpecAssets == InitAssets /\ [][NextAssets]_vars


(***************************************************************************)
(* BaseScraper: setup_browser, cleanup_browser and _cleanup_stderr, with   *)
(* the process-wide sys.stderr.  Streams are numbered: 0 is the stream the *)
(* process started with, n > 0 the n-th stream opened on the null device.  *)
(* Drivers are numbered from 1; driver 0 is None.                          *)
(***************************************************************************)
NoStream == -1
NoDriver == 0

\* all variables of the workflow and its scraper
workflow_vars ==
  <<pc, variant, summary_table, portal_rows, scraper, rows, i,
    routes_with_missing, selected_rows, route_data, k, route_info, depth,
    asset_rows, j, pending, error, cleanup_calls, result, audit, cur_audit,
    events, scans>>

\* BaseScraper.__init__
new_base_scraper(h) ==
  [pc |-> "ready", headless |-> h, driver |-> NoDriver,
   original_stderr |-> NoStream, sys_stderr |-> 0, streams |-> 0,
   drivers |-> 0, closed |-> {}, quits |-> <<>>, setups |-> 0,
   cleanups |-> 0, last |-> "init", raised |-> FALSE]

\* _cleanup_stderr
cleanup_stderr(b) ==
  IF b.original_stderr # NoStream
  THEN [b EXCEPT !.closed = @ \cup {b.sys_stderr},
                 !.sys_stderr = b.original_stderr,
                 !.original_stderr = NoStream]
  ELSE b

\* lines 44-46: if self.headless: redirect stderr to the null device
redirect_stderr(b) ==
  IF b.headless
  THEN [b EXCEPT !.original_stderr = b.sys_stderr,
                 !.sys_stderr = b.streams + 1,
                 !.streams = @ + 1]
  ELSE b

\* line 110: self.driver = webdriver.Edge(...)
create_driver(b) == [b EXCEPT !.driver = b.drivers + 1, !.drivers = @ + 1]

\* the try block of setup_browser ends in one of three ways: an exception
\* before the driver is assigned, one after it (lines 113-114), or success
SetupOutcomes == {"raised_before_driver", "raised_after_driver", "ok"}

setup_browser(b, outcome) ==
  LET b1 == redirect_stderr(b)
      b2 == IF outcome = "raised_before_driver" THEN b1 ELSE create_driver(b1)
      b3 == IF outcome = "ok" THEN b2 ELSE cleanup_stderr(b2)
  IN  [b3 EXCEPT !.setups = @ + 1, !.last = "setup", !.raised = (outcome # "ok")]

\* cleanup_browser: quit() may raise, the except clause only prints
cleanup_browser(b, quit_raises) ==
  LET b1 == IF b.driver # NoDriver
            THEN [b EXCEPT !.quits = Append(@, [driver |-> b.driver,
                                                raised |-> quit_raises]),
                           !.driver = NoDriver]
            ELSE b
  IN  [cleanup_stderr(b1) EXCEPT !.cleanups = @ + 1, !.last = "cleanup",
                                 !.raised = FALSE]

BrowserFrame == UNCHANGED <<workflow_vars, dates, seed, wait, rest>>

SetupBrowser ==
  /\ browser.pc = "ready"
  /\ browser.setups < MaxSetups
  /\ \E outcome \in SetupOutcomes : browser' = setup_browser(browser, outcome)
  /\ BrowserFrame

CleanupBrowser ==
  /\ browser.pc = "ready"
  /\ browser.cleanups < MaxCleanups
  /\ \E quit_raises \in BOOLEAN :
       browser' = cleanup_browser(browser, quit_raises)
  /\ BrowserFrame

InitBrowser ==
  /\ WorkflowIdle
  /\ browser \in {new_base_scraper(h) : h \in BOOLEAN}
  /\ dates = NoDates
  /\ seed = NoSeed
  /\ wait = NoWait
  /\ RestIdle

NextBrowser == SetupBrowser \/ CleanupBrowser

SpecBrowser == InitBrowser /\ [][NextBrowser]_vars


(***************************************************************************)
(* get_previous_business_day.  datetime values are dates [year, month,     *)
(* day]; weekday(), the subtraction of a timedelta and strftime are        *)
(* computed as datetime computes them, through the proleptic Gregorian     *)
(* ordinal of the date.  The time of day plays no part in the result.      *)
(***************************************************************************)
Date(y, m, d) == [year |-> y, month |-> m, day |-> d]

DAYS_IN_MONTH == <<31, 28, 31, 30, 31, 30, 31, 31, 30, 31, 30, 31>>

DAYS_BEFORE_MONTH == <<0, 31, 59, 90, 120, 151, 181, 212, 243, 273, 304, 334>>

is_leap(year) == (year % 4) = 0 /\ ((year % 100) # 0 \/ (year % 400) = 0)

days_before_year(year) ==
  LET y == year - 1 IN (y * 365) + (y \div 4) - (y \div 100) + (y \div 400)

days_in_month(year, month) ==
  IF month = 2 /\ is_leap(year) THEN 29 ELSE DAYS_IN_MONTH[month]

days_before_month(year, month) ==
  DAYS_BEFORE_MONTH[month] + (IF month > 2 /\ is_leap(year) THEN 1 ELSE 0)

\* date.toordinal(): 0001-01-01 is day 1
ymd2ord(dt) ==
  days_before_year(dt.year) + days_before_month(dt.year, dt.month) + dt.day

\* date.fromordinal()
ord2ymd(ordinal) ==
  LET n0   == ordinal - 1
      n400 == n0 \div 146097
      r400 == n0 % 146097
      n100 == r400 \div 36524
      r100 == r400 % 36524
      n4   == r100 \div 1461
      r4   == r100 % 1461
      n1   == r4 \div 365
      n    == r4 % 365
      year == (n400 * 400) + 1 + (n100 * 100) + (n4 * 4) + n1
      leapyear == n1 = 3 /\ (n4 # 24 \/ n100 = 3)
      month0 == (n + 50) \div 32
      preceding0 == DAYS_BEFORE_MONTH[month0]
                      + (IF month0 > 2 /\ leapyear THEN 1 ELSE 0)
      month == IF preceding0 > n THEN month0 - 1 ELSE month0
      preceding ==
        IF preceding0 > n
        THEN preceding0 - (DAYS_IN_MONTH[month]
                             + (IF month = 2 /\ leapyear THEN 1 ELSE 0))
        ELSE preceding0
  IN  IF n1 = 4 \/ n100 = 4
      THEN Date(year - 1, 12, 31)
      ELSE Date(year, month, n - preceding + 1)

\* datetime.weekday(): Monday is 0
weekday(dt) == (ymd2ord(dt) + 6) % 7

\* dt - timedelta(days=days)
minus_days(dt, days) == ord2ymd(ymd2ord(dt) - days)

DigitChars == <<"0", "1", "2", "3", "4", "5", "6", "7", "8", "9">>

\* the decimal digits of n, zero-padded to width w
RECURSIVE zero_padded(_, _)
zero_padded(n, w) ==
  IF w = 0 THEN <<>>
  ELSE Append(zero_padded(n \div 10, w - 1), DigitChars[(n % 10) + 1])

\* strftime("%Y-%m-%d")
strftime(dt) ==
  zero_padded(dt.year, 4) \o <<"-">> \o zero_padded(dt.month, 2)
    \o <<"-">> \o zero_padded(dt.day, 2)

\* a workflow that always goes one day back
one_day_back(today) == 1

\* days_back = 3 if today.weekday() == 0 else 1
days_back(today) == IF weekday(today) = 0 THEN 3 ELSE 1

get_previous_business_day(today) ==
  strftime(minus_days(today, days_back(today)))

\* the first day on which the program is run
FirstRunDay == Date(2023, 12, 25)

RunDays ==
  {ord2ymd(ymd2ord(FirstRunDay) + n) : n \in 0..(MaxRunDays - 1)}

DateFrame == UNCHANGED <<workflow_vars, browser, seed, wait, rest>>

\* today = datetime.now() and the call's return value
GetPreviousBusinessDay ==
  /\ dates.pc = "call"
  /\ dates' = [dates EXCEPT !.pc = "returned",
                            !.target_date = get_previous_business_day(dates.today)]
  /\ DateFrame

InitDate ==
  /\ WorkflowIdle
  /\ dates \in {[pc |-> "call", today |-> d, target_date |-> <<>>] : d \in RunDays}
  /\ browser = NoBrowser
  /\ seed = NoSeed
  /\ wait = NoWait
  /\ RestIdle

NextDate == GetPreviousBusinessDay

SpecDate == InitDate /\ [][NextDate]_vars


(***************************************************************************)
(* SeedBrowser: login, navigate_to_route_summary and                       *)
(* navigate_to_item_import_export.  A URL is a record of its host, the     *)
(* routing prefix that follows the host ("" when there is none), the path  *)
(* after it and the date parameter; a test "word in url" looks for the     *)
(* word among the parts of the URL.                                        *)
(***************************************************************************)
Url(h, p, path, d) == [host |-> h, prefix |-> p, path |-> path, date |-> d]

NoUrl == Url("", "", <<>>, <<>>)

Portal == "mycantaloupe.com"

url_words(url) ==
  {url.host} \cup ({url.prefix} \ {""}) \cup {url.path[n] : n \in 1..Len(url.path)}

\* str.lower() of a part of a URL
lower_word(w) ==
  CASE w = "Login" -> "login"
    [] w = "Account" -> "account"
    [] w = "Home" -> "home"
    [] w = "Reports" -> "reports"
    [] w = "RoutesSummary" -> "routessummary"
    [] w = "ItemImportExport" -> "itemimportexport"
    [] w = "ExcelExport" -> "excelexport"
    [] OTHER -> w

\* word in url
url_contains(url, word) == word \in url_words(url)

\* word in url.lower()
url_lower_contains(url, word) == word \in {lower_word(w) : w \in url_words(url)}

\* pages the session may show after the login form was submitted, or when
\* no login form came up
LoginPage == Url(Portal, "", <<"Account", "Login">>, <<>>)

PostLoginUrls ==
  { Url(Portal, "cs4", <<"Home">>, <<>>),
    Url(Portal, "cs7", <<"Home">>, <<>>),
    Url(Portal, "", <<"Home">>, <<>>),
    LoginPage,
    Url("sso.example.com", "", <<"auth">>, <<>>) }

\* line 83: the URL test that decides the return value of login
login_check(url) ==
  url_contains(url, Portal) /\ ~url_lower_contains(url, "login")

\* line 110: the f-string of the summary URL
routes_url(target_date) ==
  Url(Portal, "cs4", <<"Reports", "RoutesSummary">>, target_date)

\* line 141
export_url == Url(Portal, "cs4", <<"ItemImportExport", "ExcelExport">>, <<>>)

TargetDates ==
  {get_previous_business_day(d) : d \in {Date(2024, 6, 10), Date(2024, 6, 12)}}

\* SeedBrowser.__init__ with the credentials set, on a fresh driver
new_seed_browser ==
  [pc |-> "login", current_url |-> NoUrl, login_ret |-> FALSE,
   login_path |-> "none", post_login_url |-> NoUrl, requested |-> <<>>,
   navigate_ret |-> FALSE]

SeedFrame == UNCHANGED <<workflow_vars, browser, dates, wait, rest>>

\* login(): driver.get raises; no login form within the wait (TimeoutException);
\* an element of the form is missing or the click raises; the form is
\* submitted and the page shown eight seconds later decides
SeedLogin ==
  /\ seed.pc = "login"
  /\ \/ seed' = [seed EXCEPT !.pc = "session", !.login_path = "get_raised",
                             !.login_ret = FALSE]
     \/ \E url \in PostLoginUrls :
          seed' = [seed EXCEPT !.pc = "session", !.login_path = "no_form",
                               !.current_url = url, !.post_login_url = url,
                               !.login_ret = TRUE]
     \/ seed' = [seed EXCEPT !.pc = "session", !.login_path = "form_raised",
                             !.current_url = LoginPage, !.login_ret = FALSE]
     \/ \E url \in PostLoginUrls :
          seed' = [seed EXCEPT !.pc = "session", !.login_path = "submitted",
                               !.current_url = url, !.post_login_url = url,
                               !.login_ret = login_check(url)]
  /\ SeedFrame

\* pages the session may show after driver.get(url): the page asked for,
\* the same page under the session's own prefix, or the login page
PagesAfterGet(url) ==
  { url, LoginPage }
    \cup { [url EXCEPT !.prefix = seed.post_login_url.prefix] }

\* driver.get(url) raises: the except clause returns False
get_raised(s, url) ==
  [s EXCEPT !.requested = Append(@, url), !.navigate_ret = FALSE]

\* driver.get(url) and the test of the page then shown
get_shown(s, url, shown, word) ==
  [s EXCEPT !.requested = Append(@, url), !.current_url = shown,
            !.navigate_ret = url_contains(shown, word)]

\* the callers navigate only after login() returned True
CanNavigate ==
  /\ seed.pc = "session"
  /\ seed.login_ret
  /\ Len(seed.requested) < MaxNavigations

NavigateToRouteSummary ==
  /\ CanNavigate
  /\ \E target_date \in TargetDates :
       LET url == routes_url(target_date) IN
       \/ seed' = get_raised(seed, url)
       \/ \E shown \in PagesAfterGet(url) :
            seed' = get_shown(seed, url, shown, "RoutesSummary")
  /\ SeedFrame

NavigateToItemImportExport ==
  /\ CanNavigate
  /\ \/ seed' = get_raised(seed, export_url)
     \/ \E shown \in PagesAfterGet(export_url) :
          seed' = get_shown(seed, export_url, shown, "ItemImportExport")
  /\ SeedFrame

InitSeed ==
  /\ WorkflowIdle
  /\ seed = new_seed_browser
  /\ browser = NoBrowser
  /\ dates = NoDates
  /\ wait = NoWait
  /\ RestIdle

NextSeed == SeedLogin \/ NavigateToRouteSummary \/ NavigateToItemImportExport

SpecSeed == InitSeed /\ [][NextSeed]_vars


(***************************************************************************)
(* The waiting operations: BaseScraper.wait_for_page_load and safe_click,  *)
(* ProductListScraper.monitor_download, and the loop of configure_browser  *)
(* that waits for the browser window to be closed.  Time is counted in     *)
(* half seconds since the call started, for the loops that read the clock; *)
(* a call that returns at once takes no time.                              *)
(***************************************************************************)
PerSecond == 2

\* wait.bound when the loop's condition tests neither a clock nor a counter
NoBound == -1

WaitKinds == {"page_load", "download", "click", "closed"}

\* the state at the start of a call; limit is timeout or max_retries
new_wait(kind, limit) ==
  [kind |-> kind, pc |-> "loop", limit |-> limit,
   bound |-> CASE kind \in {"page_load", "download"} -> limit * PerSecond
               [] kind = "click" -> limit
               [] OTHER -> NoBound,
   elapsed |-> 0, attempt |-> 0, timed_out |-> FALSE, ret |-> "none",
   clicks |-> 0, clicked |-> FALSE]

\* the call returns
returned(w, value) == [w EXCEPT !.pc = "done", !.ret = value]

\* time.sleep(seconds), asyncio.sleep(seconds) and calls that take time
slept(w, half_seconds) == [w EXCEPT !.elapsed = @ + half_seconds]

\* while time.time() - start_time < timeout
in_time(w) == w.elapsed < w.limit * PerSecond

\* wait_for_page_load: one pass through the loop, or the timeout after it
WaitForPageLoad ==
  /\ wait.kind = "page_load"
  /\ wait.pc = "loop"
  /\ IF in_time(wait)
     THEN \E ready \in {"complete", "loading", "raised"}, took \in 0..1 :
            wait' = CASE ready = "complete" -> returned(slept(wait, took), "True")
                      [] ready = "raised" -> returned(slept(wait, took), "False")
                      [] OTHER -> slept(wait, took + 1)
     ELSE wait' = returned([wait EXCEPT !.timed_out = TRUE], "False")
  /\ UNCHANGED <<workflow_vars, browser, dates, seed, rest>>

\* monitor_download: one pass through the loop, or the timeout after it.
\* A new Excel file costs sleep(2) and the three seconds of
\* is_download_complete; the pass ends with sleep(1) unless it returned.
MonitorDownload ==
  /\ wait.kind = "download"
  /\ wait.pc = "loop"
  /\ IF in_time(wait)
     THEN \E found \in {"nothing", "growing", "complete"} :
            wait' = CASE found = "complete" ->
                           returned(slept(wait, 5 * PerSecond), "file_path")
                      [] found = "growing" -> slept(wait, 6 * PerSecond)
                      [] OTHER -> slept(wait, 1 * PerSecond)
     ELSE wait' = returned([wait EXCEPT !.timed_out = TRUE], "None")
  /\ UNCHANGED <<workflow_vars, browser, dates, seed, rest>>

\* a loop that makes one attempt more
in_range_inclusive(attempt, max_retries) == attempt <= max_retries

\* line 178: for attempt in range(max_retries)
in_range(attempt, max_retries) == attempt < max_retries

\* line 180: element.click() is called, and returns or raises
element_click(w, clicked) == [w EXCEPT !.clicks = @ + 1, !.clicked = clicked]

\* safe_click: one attempt of range(max_retries), or the return after it
SafeClick ==
  /\ wait.kind = "click"
  /\ wait.pc = "loop"
  /\ IF in_range(wait.attempt, wait.limit)
     THEN \E clicked \in BOOLEAN :
            LET w == element_click(wait, clicked) IN
            wait' = IF clicked THEN returned(w, "True")
                    ELSE IF wait.attempt < wait.limit - 1
                    THEN [slept(w, 1 * PerSecond) EXCEPT !.attempt = @ + 1]
                    ELSE returned([w EXCEPT !.timed_out = TRUE], "False")
     ELSE wait' = returned([wait EXCEPT !.timed_out = TRUE], "False")
  /\ UNCHANGED <<workflow_vars, browser, dates, seed, rest>>

\* configure_browser lines 14-15: the test of the loop condition, which
\* raises, finds the page closed or finds it open, and the sleep of one
\* second that follows an open page.  The loop reads no clock.
WaitForClose ==
  /\ wait.kind = "closed"
  /\ \/ /\ wait.pc = "loop"
        /\ \E page \in {"raised", "closed", "open"} :
             wait' = IF page = "open" THEN [wait EXCEPT !.pc = "sleep"]
                     ELSE returned(wait, "None")
     \/ /\ wait.pc = "sleep"
        /\ wait' = [wait EXCEPT !.pc = "loop"]
  /\ UNCHANGED <<workflow_vars, browser, dates, seed, rest>>

InitWait ==
  /\ WorkflowIdle
  /\ wait \in {new_wait(kind, limit) :
                 kind \in WaitKinds \ {"closed"}, limit \in 0..MaxTimeout}
               \cup {new_wait("closed", 0)}
  /\ browser = NoBrowser
  /\ dates = NoDates
  /\ seed = NoSeed
  /\ RestIdle

NextWait == WaitForPageLoad \/ MonitorDownload \/ SafeClick \/ WaitForClose

\* the one thread of control keeps running: a step that can be taken is taken
SpecWait == InitWait /\ [][NextWait]_vars /\ WF_vars(NextWait)


(***************************************************************************)
(* InventoryConfirmationProcessor.generate_report: the two nested loops    *)
(* that turn route_data into all_assets, and the rows then written to the  *)
(* sheet.  A dictionary is a function on its keys, and dict.get is         *)
(* computed from the keys that are there.                                  *)
(***************************************************************************)
\* d.get(key, default)
get(d, key, default) == IF key \in DOMAIN d THEN d[key] ELSE default

YES_NO == <<"Y","E","S","/","N","O">>

\* the assets get_incomplete_routes collects from the sample detail rows
ReportAssets ==
  {check_asset_row(r).asset[1] : r \in {q \in DetailRows : check_asset_row(q).collected}}

\* route results as get_incomplete_routes leaves them
ReportRoutes ==
  { [new_route_info(<<<<"R","t","1">>, 4>>) EXCEPT !.incomplete_assets = a] :
      a \in SeqsUpTo(ReportAssets, MaxAssetRows) }
  \cup { no_link_info(new_route_info(<<<<"R","t","2">>, 1>>)),
         [new_route_info(<<<<"R","t","3">>, 2>>) EXCEPT !.status = "Error"] }

\* lines 42-48: the dictionary appended for one asset
excel_row(asset) ==
  ("Asset ID" :> get(asset, "asset_id", <<>>))
    @@ ("Location / Place" :> get(asset, "location", <<>>))
    @@ ("Type" :> get(asset, "type", <<>>))
    @@ ("Restock Time" :> get(asset, "restock_time", <<>>))
    @@ ("Inventory Req'd/Taken" :> get(asset, "inventory_taken", YES_NO))

\* an aggregator that puts each new row first
prepend_row(all_assets, row) == <<row>> \o all_assets

\* all_assets.append(...)
append_row(all_assets, row) == Append(all_assets, row)

\* route.get('incomplete_assets', [])
assets_of(route) == get(route, "incomplete_assets", <<>>)

\* lines 59-64: the cells A..E of one row of the sheet
sheet_row(row) ==
  <<row["Asset ID"], row["Location / Place"], row["Type"],
    row["Restock Time"], row["Inventory Req'd/Taken"]>>

\* the call starts: all_assets = [], before the first route
new_report(data) ==
  [pc |-> "routes", route_data |-> data, r |-> 1, a |-> 1,
   all_assets |-> <<>>, opened |-> FALSE, sheet |-> <<>>]

ReportFrame == UNCHANGED <<workflow_vars, browser, dates, seed, wait,
                           iad, pool, stockout, menu>>

\* line 40: the next route, or the end of the outer loop
ReportRoute ==
  /\ report.pc = "routes"
  /\ IF report.r <= Len(report.route_data)
     THEN report' = [report EXCEPT !.pc = "assets", !.a = 1]
     ELSE report' = [report EXCEPT !.pc = "write"]
  /\ ReportFrame

\* lines 41-48: the next asset of the route, or the end of the inner loop
ReportAsset ==
  /\ report.pc = "assets"
  /\ LET assets == assets_of(report.route_data[report.r]) IN
     IF report.a <= Len(assets)
     THEN report' = [report EXCEPT
                       !.all_assets = append_row(@, excel_row(assets[report.a])),
                       !.a = @ + 1]
     ELSE report' = [report EXCEPT !.pc = "routes", !.r = @ + 1]
  /\ ReportFrame

\* lines 50-71: the sheet is opened and written only when there are rows
ReportWrite ==
  /\ report.pc = "write"
  /\ IF report.all_assets # <<>>
     THEN report' = [report EXCEPT
                       !.pc = "done", !.opened = TRUE,
                       !.sheet = [n \in 1..Len(report.all_assets) |->
                                    sheet_row(report.all_assets[n])]]
     ELSE report' = [report EXCEPT !.pc = "done"]
  /\ ReportFrame

InitReport ==
  /\ WorkflowIdle
  /\ report \in {new_report(d) : d \in SeqsUpTo(ReportRoutes, MaxDataRows)}
  /\ browser = NoBrowser
  /\ dates = NoDates
  /\ seed = NoSeed
  /\ wait = NoWait
  /\ iad = NoIad
  /\ pool = NoPool
  /\ stockout = NoStockout
  /\ menu = NoMenu

NextReport == ReportRoute \/ ReportAsset \/ ReportWrite

SpecReport == InitReport /\ [][NextReport]_vars


(***************************************************************************)
(* The download of the inventory adjustment detail report:                 *)
(* utils/downloader.py download_seed_report, and download_iad_report of    *)
(* report_workflows/daily/inventory_adjustment.py with the workflow step   *)
(* that reads the file.  iad.stale says a file of that name was in the     *)
(* directory before the call.                                              *)
(***************************************************************************)
Monday == 0
Weekdays == 0..6

\* config/report_config.py SEED_REPORTS
SEED_REPORTS ==
  [inventory_adjustment_previous_day |-> "33110",
   inventory_adjustment_3_days_ago |-> "33111"]

\* get_inventory_adjustment_report_id, lines 17-34
get_inventory_adjustment_report_id(today) ==
  IF today = Monday
  THEN <<SEED_REPORTS.inventory_adjustment_3_days_ago, "Friday data (3 days ago)">>
  ELSE <<SEED_REPORTS.inventory_adjustment_previous_day, "Previous business day">>

IadFilename == "inventory_adjustment_detail.xlsx"
TempDirectories == {"downloads/temp", ""}

\* os.path.join(download_path, filename) if download_path else filename
full_path(download_path, filename) ==
  IF download_path # "" THEN <<download_path, filename>> ELSE <<filename>>

\* os.path.join(temp_directory, filename)
path_join(directory, filename) ==
  IF directory # "" THEN <<directory, filename>> ELSE <<filename>>

\* what requests.get does: a response with a status code, or an exception
Responses == {"200", "404", "500", "raised"}

\* lines 94, 97, 100: the dictionary download_seed_report returns
download_result(ok, filename, report_id, path) ==
  [success |-> ok, filename |-> filename, report_id |-> report_id, path |-> path]

\* bool(x) of a dictionary: true when it has a key
truthy(d) == DOMAIN d # {}

NoPath == <<>>
NoDownload == [none |-> TRUE]
FailedToDownload == "Failed to download IAD report"
CredentialsNotSet == "SEED_USERNAME and SEED_PASSWORD must be set in .env file"

new_iad(today, directory, credentials, stale) ==
  [pc |-> "download", today |-> today, temp_directory |-> directory,
   credentials |-> credentials, stale |-> stale, response |-> "none",
   written |-> FALSE, success |-> NoDownload, ret |-> NoPath, exc |-> "",
   read |-> "none"]

IadFrame == UNCHANGED <<workflow_vars, browser, dates, seed, wait, report,
                        pool, stockout, menu>>

\* download_seed_report as download_iad_report calls it (line 52):
\* get_seed_credentials raises before the try; a 200 response is written to
\* the file, and a failure of that write is caught like any exception
DownloadSeedReport ==
  /\ iad.pc = "download"
  /\ LET report_id == get_inventory_adjustment_report_id(iad.today)[1]
         path == full_path(iad.temp_directory, IadFilename) IN
     IF ~iad.credentials
     THEN iad' = [iad EXCEPT !.pc = "raised", !.exc = CredentialsNotSet]
     ELSE \E response \in Responses, write_ok \in BOOLEAN :
            LET ok == response = "200" /\ write_ok IN
            iad' = [iad EXCEPT !.pc = "check", !.response = response,
                               !.written = ok,
                               !.success = download_result(ok, IadFilename,
                                                           report_id, path)]
  /\ IadFrame

\* download_iad_report lines 54-59: if success: return file_path, else raise
DownloadIadReport ==
  /\ iad.pc = "check"
  /\ iad' = IF truthy(iad.success)
            THEN [iad EXCEPT !.pc = "returned",
                             !.ret = path_join(iad.temp_directory, IadFilename)]
            ELSE [iad EXCEPT !.pc = "raised", !.exc = FailedToDownload]
  /\ IadFrame

\* the workflow, line 108: pd.read_excel(iad_file_path)
ReadIadFile ==
  /\ iad.pc = "returned"
  /\ iad' = [iad EXCEPT !.pc = "read",
                        !.read = IF iad.written THEN "downloaded"
                                 ELSE IF iad.stale THEN "stale"
                                 ELSE "missing"]
  /\ IadFrame

InitIad ==
  /\ WorkflowIdle
  /\ iad \in {new_iad(today, directory, credentials, stale) :
                today \in Weekdays, directory \in TempDirectories,
                credentials \in BOOLEAN, stale \in BOOLEAN}
  /\ browser = NoBrowser
  /\ dates = NoDates
  /\ seed = NoSeed
  /\ wait = NoWait
  /\ report = NoReport
  /\ pool = NoPool
  /\ stockout = NoStockout
  /\ menu = NoMenu

NextIad == DownloadSeedReport \/ DownloadIadReport \/ ReadIadFile

SpecIad == InitIad /\ [][NextIad]_vars


(***************************************************************************)
(* utils/downloader.py download_multiple_reports_concurrent: the calling   *)
(* thread submits one download_seed_report per report to a thread pool,    *)
(* the workers run them in any order, and the calling thread collects the  *)
(* results as the futures complete.  pool.futures[n] is the future of      *)
(* reports_list[n].                                                        *)
(***************************************************************************)
\* config/report_config.py
MAX_CONCURRENT_DOWNLOADS == 25

PoolReports == { <<"33105", "daily_fill_oos.xlsx">>, <<"33106", "weekly_sales.xlsx">> }

NoLists == <<>>
NewFuture == [state |-> "queued", outcome |-> "none", result |-> NoDownload]

new_pool(reports_list, download_path, credentials) ==
  [pc |-> "submit", reports_list |-> reports_list, download_path |-> download_path,
   credentials |-> credentials, futures |-> <<>>, yielded |-> {},
   successful_downloads |-> <<>>, failed_downloads |-> <<>>,
   ret |-> NoLists, exc |-> ""]

PoolFrame == UNCHANGED <<workflow_vars, browser, dates, seed, wait, report,
                         iad, stockout, menu>>

Running(p) == {n \in 1..Len(p.futures) : p.futures[n].state = "running"}

\* lines 123-126: executor.submit(...) for the next report of the list
Submit ==
  /\ pool.pc = "submit"
  /\ pool' = IF Len(pool.futures) < Len(pool.reports_list)
             THEN [pool EXCEPT !.futures = Append(@, NewFuture)]
             ELSE [pool EXCEPT !.pc = "collect"]
  /\ PoolFrame

\* a free worker thread of the pool takes a queued call
WorkerStart ==
  /\ \E n \in 1..Len(pool.futures) :
       /\ pool.futures[n].state = "queued"
       /\ Cardinality(Running(pool)) < MAX_CONCURRENT_DOWNLOADS
       /\ pool' = [pool EXCEPT !.futures[n].state = "running"]
  /\ PoolFrame

\* a worker's download_seed_report ends: get_seed_credentials raises, or
\* a dictionary is returned
WorkerFinish ==
  /\ \E n \in 1..Len(pool.futures) :
       /\ pool.futures[n].state = "running"
       /\ LET report_id == pool.reports_list[n][1]
              filename == pool.reports_list[n][2]
              path == full_path(pool.download_path, filename) IN
          IF ~pool.credentials
          THEN pool' = [pool EXCEPT !.futures[n].state = "done",
                                    !.futures[n].outcome = "raised"]
          ELSE \E ok \in BOOLEAN :
                 pool' = [pool EXCEPT
                            !.futures[n].state = "done",
                            !.futures[n].outcome = "returned",
                            !.futures[n].result =
                               download_result(ok, filename, report_id, path)]
  /\ PoolFrame

\* a collector that takes up a future it has already had
yields_again(p, n) == p.futures[n].state = "done"

\* as_completed(future_to_report) gives each future once, when it is done
yields(p, n) == p.futures[n].state = "done" /\ n \notin p.yielded

\* lines 129-134: one pass of the loop over as_completed; future.result()
\* raises what the worker's call raised
Collect ==
  /\ pool.pc = "collect"
  /\ IF pool.yielded = 1..Len(pool.futures)
     THEN pool' = [pool EXCEPT !.pc = "exit"]
     ELSE \E n \in 1..Len(pool.futures) :
            /\ yields(pool, n)
            /\ LET f == pool.futures[n]
                   entry == [future |-> n, result |-> f.result] IN
               pool' =
                 IF f.outcome = "raised"
                 THEN [pool EXCEPT !.pc = "exit_raising", !.yielded = @ \cup {n}]
                 ELSE IF f.result.success
                 THEN [pool EXCEPT !.yielded = @ \cup {n},
                                   !.successful_downloads = Append(@, entry)]
                 ELSE [pool EXCEPT !.yielded = @ \cup {n},
                                   !.failed_downloads = Append(@, entry)]
  /\ PoolFrame

\* the end of the with block waits for every worker, then line 145 returns
\* the two lists, or the exception of future.result() goes on to the caller
ExitPool ==
  /\ pool.pc \in {"exit", "exit_raising"}
  /\ \A n \in 1..Len(pool.futures) : pool.futures[n].state = "done"
  /\ pool' = IF pool.pc = "exit"
             THEN [pool EXCEPT !.pc = "returned",
                               !.ret = <<pool.successful_downloads,
                                         pool.failed_downloads>>]
             ELSE [pool EXCEPT !.pc = "raised", !.exc = CredentialsNotSet]
  /\ PoolFrame

InitPool ==
  /\ WorkflowIdle
  /\ pool \in {new_pool(reports_list, download_path, credentials) :
                 reports_list \in SeqsUpTo(PoolReports, MaxReports),
                 download_path \in TempDirectories,
                 credentials \in BOOLEAN}
  /\ browser = NoBrowser
  /\ dates = NoDates
  /\ seed = NoSeed
  /\ wait = NoWait
  /\ report = NoReport
  /\ iad = NoIad
  /\ stockout = NoStockout
  /\ menu = NoMenu

NextPool == Submit \/ WorkerStart \/ WorkerFinish \/ Collect \/ ExitPool

SpecPool == InitPool /\ [][NextPool]_vars


(***************************************************************************)
(* report_workflows/daily_stockout.py: validate_prerequisites as           *)
(* get_stockout_processing_status calls it.  stockout.template is the      *)
(* state of the template file, stockout.lightspeed and stockout.level what *)
(* the two test queries do.                                                *)
(***************************************************************************)
TemplateFiles == {"missing", "empty", "present"}
QueryOutcomes == {"ok", "connect_raised", "query_raised"}

\* StockoutExcelProcessor.get_template_info
get_template_info(template) ==
  [exists |-> template # "missing",
   size |-> IF template = "present" THEN 1 ELSE 0,
   modified |-> IF template = "missing" THEN "Unknown" ELSE "2024-01-01 00:00:00"]

\* database/connection.py test_database_connection: both queries run, or
\* the first exception gives False
test_database_connection(lightspeed, level) ==
  lightspeed = "ok" /\ level = "ok"

\* lines 24-28: the dictionary validate_prerequisites starts with
new_validation_results ==
  [template_exists |-> FALSE, database_connected |-> FALSE, all_valid |-> FALSE]

\* bool(value) of a value of validation_results: the flags are themselves,
\* the template_info dictionary is true as it has keys
truth(d, key) == IF key = "template_info" THEN truthy(d[key]) ELSE d[key]

\* line 44: all(validation_results.values())
all_values(d) == \A key \in DOMAIN d : truth(d, key)

NoStatus == [none |-> TRUE]

new_stockout(template, lightspeed, level) ==
  [pc |-> "template", template |-> template, lightspeed |-> lightspeed,
   level |-> level, validation_results |-> new_validation_results,
   status |-> NoStatus]

StockoutFrame == UNCHANGED <<workflow_vars, browser, dates, seed, wait, report,
                             iad, pool, menu>>

\* lines 30-33
CheckTemplate ==
  /\ stockout.pc = "template"
  /\ LET template_info == get_template_info(stockout.template) IN
     stockout' =
       [stockout EXCEPT
          !.pc = "database",
          !.validation_results =
             [@ EXCEPT !.template_exists = template_info.exists]
               @@ [template_info |-> template_info]]
  /\ StockoutFrame

\* line 41
CheckDatabase ==
  /\ stockout.pc = "database"
  /\ stockout' =
       [stockout EXCEPT
          !.pc = "overall",
          !.validation_results.database_connected =
             test_database_connection(stockout.lightspeed, stockout.level)]
  /\ StockoutFrame

\* line 44
OverallValidation ==
  /\ stockout.pc = "overall"
  /\ stockout' =
       [stockout EXCEPT
          !.pc = "validated",
          !.validation_results.all_valid = all_values(stockout.validation_results)]
  /\ StockoutFrame

\* get_stockout_processing_status, lines 196-209
ProcessingStatus ==
  /\ stockout.pc = "validated"
  /\ LET validation == stockout.validation_results IN
     stockout' =
       [stockout EXCEPT
          !.pc = "done",
          !.status = [ready_for_processing |-> validation.all_valid,
                      template |-> validation.template_info,
                      database |-> [connected |-> validation.database_connected,
                                    dsn |-> "Lightspeed", user |-> "LSReadOnly"]]]
  /\ StockoutFrame

InitStockout ==
  /\ WorkflowIdle
  /\ stockout \in {new_stockout(template, lightspeed, level) :
                     template \in TemplateFiles, lightspeed \in QueryOutcomes,
                     level \in QueryOutcomes}
  /\ browser = NoBrowser
  /\ dates = NoDates
  /\ seed = NoSeed
  /\ wait = NoWait
  /\ report = NoReport
  /\ iad = NoIad
  /\ pool = NoPool
  /\ menu = NoMenu

NextStockout == CheckTemplate \/ CheckDatabase \/ OverallValidation \/ ProcessingStatus

SpecStockout == InitStockout /\ [][NextStockout]_vars


(***************************************************************************)
(* utils/menu_navigator.py MenuNavigator.  The callers pass literal lists  *)
(* of options, none of them empty; menu.count is len(self.options).  A key *)
(* is the byte msvcrt.getch() returns; menu.before, menu.key and menu.key2 *)
(* keep the selection before the last pass of the loop and the bytes read  *)
(* in it.                                                                  *)
(***************************************************************************)
ArrowPrefixes == {"xe0", "x00"}
EnterKeys == {"CR", "LF"}
Keys == ArrowPrefixes \cup EnterKeys \cup {"H", "P", "q", "Q", "x"}
NoKey == "none"
Quit == -1

\* bytes.lower()
lower_key(key) == IF key = "Q" THEN "q" ELSE IF key = "H" THEN "h"
                  ELSE IF key = "P" THEN "p" ELSE key

\* an Up arrow that stops at the first option
up_clamped(selected, count) == IF selected > 0 THEN selected - 1 ELSE 0

\* line 46: (self.selected - 1) % len(self.options)
up(selected, count) == (selected - 1) % count

\* line 48: (self.selected + 1) % len(self.options)
down(selected, count) == (selected + 1) % count

\* MenuNavigator.__init__
new_menu(count) ==
  [pc |-> "getch", count |-> count, selected |-> 0, before |-> 0,
   key |-> NoKey, key2 |-> NoKey, ret |-> "none"]

MenuFrame == UNCHANGED <<workflow_vars, browser, dates, seed, wait, report,
                         iad, pool, stockout>>

\* lines 37-43 and 50-56: display, the first getch and the keys of one byte
Getch ==
  /\ menu.pc = "getch"
  /\ \E key \in Keys :
       LET m == [menu EXCEPT !.key = key, !.key2 = NoKey, !.before = menu.selected] IN
       menu' = IF key \in ArrowPrefixes THEN [m EXCEPT !.pc = "getch2"]
               ELSE IF key \in EnterKeys
               THEN [m EXCEPT !.pc = "returned", !.ret = m.selected]
               ELSE IF lower_key(key) = "q"
               THEN [m EXCEPT !.pc = "returned", !.ret = Quit]
               ELSE m
  /\ MenuFrame

\* lines 44-48: the second byte of an arrow key
Getch2 ==
  /\ menu.pc = "getch2"
  /\ \E key2 \in Keys :
       LET m == [menu EXCEPT !.pc = "getch", !.key2 = key2] IN
       menu' = IF key2 = "H" THEN [m EXCEPT !.selected = up(@, m.count)]
               ELSE IF key2 = "P" THEN [m EXCEPT !.selected = down(@, m.count)]
               ELSE m
  /\ MenuFrame

InitMenu ==
  /\ WorkflowIdle
  /\ menu \in {new_menu(count) : count \in 1..MaxOptions}
  /\ browser = NoBrowser
  /\ dates = NoDates
  /\ seed = NoSeed
  /\ wait = NoWait
  /\ report = NoReport
  /\ iad = NoIad
  /\ pool = NoPool
  /\ stockout = NoStockout

NextMenu == Getch \/ Getch2

SpecMenu == InitMenu /\ [][NextMenu]_vars


(***************************************************************************)
(* Properties.                                                             *)
(***************************************************************************)
\* a count cell that reads as a whole number above zero: decimal digits only,
\* not all of them zero
IsPositiveInteger(s) ==
  /\ s # <<>>
  /\ \A n \in 1..Len(s) : IsAsciiDigit(s[n])
  /\ \E n \in 1..Len(s) : s[n] # "0"

\* the row has a readable name cell that starts with the route prefix
HasRouteName(row) ==
  /\ row.ok
  /\ Len(row.cells) >= 2
  /\ row.cells[2].ok
  /\ startswith(strip(row.cells[2].text), RoutePrefix)

\* the row has a readable count cell holding a whole number above zero
HasPositiveCount(row) ==
  /\ row.ok
  /\ Len(row.cells) >= 5
  /\ row.cells[5].ok
  /\ IsPositiveInteger(strip(row.cells[5].text))

Qualifies(row) == HasRouteName(row) /\ HasPositiveCount(row)

\* a row the scan cannot read in full
Unreadable(row) ==
  \/ ~row.ok
  \/ Len(row.cells) < MinCells
  \/ \E n \in 1..Len(row.cells) : ~row.cells[n].ok

\* C1: every row the discovery scan has passed is selected if and only if it
\* lies after the leading offset, its trimmed name cell starts with 'Rt' and
\* its trimmed count cell is an integer greater than 0.
C1_SelectedIffRouteWithPositiveCount ==
  \A n \in 0..(i - 1) :
    n < Len(rows) =>
      (n \in selected_rows <=> (n >= Offset /\ Qualifies(rows[n + 1])))

\* C1: the scan has ended with a selected route and an unselected route whose
\* count cell is not a number.
C1_Witness ==
  /\ pc = "route"
  /\ selected_rows # {}
  /\ \E n \in Offset..(Len(rows) - 1) :
       /\ HasRouteName(rows[n + 1])
       /\ ~HasPositiveCount(rows[n + 1])
       /\ n \notin selected_rows

\* C9: the discovery scan never ends early: once it is over every row has
\* been passed, every readable qualifying row has been selected whatever rows
\* came before it, and no exception of a row has left the scan.
C9_ScanNeverAborts ==
  /\ pc \notin {"rows", "scan"} =>
       /\ i >= Len(rows)
       /\ \A n \in Offset..(Len(rows) - 1) :
            Qualifies(rows[n + 1]) => n \in selected_rows
  /\ pc = "except" => error = "locator"

\* C9: the scan is over, and a route was selected after a row that could not
\* be read.
C9_Witness ==
  /\ pc = "route"
  /\ \E n \in Offset..(Len(rows) - 1) :
       /\ Unreadable(rows[n + 1])
       /\ \E m \in selected_rows : m > n


\* the result of a finished route, next to its history
Finished == 1..Len(audit)

\* C2 as claimed: a route whose processing raised has status Error and an
\* empty asset list.
C2_FailedRouteHasNoAssets ==
  \A n \in Finished :
    audit[n].raised =>
      /\ route_data[n].status = "Error"
      /\ route_data[n].incomplete_assets = <<>>

\* C3 as claimed: a route whose own processing did not raise was looked up on
\* the summary page and has the result the summary page gives it: Incomplete
\* when the page holds its link, whatever happened to the routes before it.
C3_OtherRoutesUnaffected ==
  \A n \in Finished :
    ~audit[n].raised =>
      /\ audit[n].on_summary
      /\ route_data[n].status =
           IF audit[n].link THEN "Incomplete" ELSE "No Link Found"

\* C4 as claimed: whenever the link of a route is looked up, the session
\* shows the summary page.
C4_SummaryShownAtLookup == pc = "lookup" => depth = 0

\* C5 as claimed: when the workflow function is left, cleanup_browser has
\* been called exactly once.
C5_CleanupExactlyOnce == pc = "done" => cleanup_calls = 1

\* C5 as amended: when the workflow function is left, cleanup_browser has
\* been called exactly once if the scraper was constructed and not at all if
\* its constructor raised; it is never called before the finally clause.
C5_CleanupOnceIfConstructed ==
  /\ pc = "done" => cleanup_calls = (IF scraper THEN 1 ELSE 0)
  /\ pc # "done" => cleanup_calls = 0

\* C5: the workflow was interrupted while a route was open, and the cleanup
\* has run once.
C5_Witness ==
  /\ pc = "done"
  /\ pending = "interrupt"
  /\ depth > 0
  /\ cleanup_calls = 1

\* the cell of a detail row that holds the type: the first one past the
\* cells get_incomplete_routes reads
TypeCell == MinAssetCells + 1

\* the identifier or the type of the row holds an excluded marker, whatever
\* the case of the letters
MarkedExcluded(row) ==
  \E x \in ExclusionKeywords :
    \/ contains(upper(row.cells[1].text), x)
    \/ /\ Len(row.cells) >= TypeCell
       /\ contains(upper(row.cells[TypeCell].text), x)

IsIn(row, seq) == \E m \in 1..Len(seq) : seq[m] = row

\* C6 as claimed: of the rows handled for the current route whose status
\* matched, a row is collected if and only if neither its identifier nor its
\* type holds an exclusion keyword.
C6_CollectedIffNotExcluded ==
  \A m \in 1..Len(cur_audit.seen) :
    LET row == cur_audit.seen[m] IN
      (Len(row.cells) >= MinAssetCells
         /\ status_matches(lower(strip(row.cells[3].text)))) =>
        (IsIn(row, cur_audit.kept) <=> ~MarkedExcluded(row))

\* the token the portal shows while an asset's inventory status is unset
UnsetStatusToken == <<"Y","E","S","/","N","O">>

\* C7 as claimed: a collected row has the unset-status token as its status.
C7_CollectedOnlyOnUnsetToken ==
  \A m \in 1..Len(cur_audit.kept) :
    strip(cur_audit.kept[m].cells[3].text) = UnsetStatusToken

RECURSIVE ExpectedFrom(_, _)
\* the names of the routes the rows n, n + 1, ... of the table select
ExpectedFrom(table, n) ==
  IF n > Len(table) THEN <<>>
  ELSE IF Qualifies(table[n])
  THEN <<strip(table[n].cells[2].text)>> \o ExpectedFrom(table, n + 1)
  ELSE ExpectedFrom(table, n + 1)

\* the names of the routes the summary table selects, in table order
ExpectedRoutes(table) == ExpectedFrom(table, Offset + 1)

RoutesOf(data) == [n \in 1..Len(data) |-> data[n].route]

\* C8: the sequence get_incomplete_routes returns holds one result per
\* selected route in the order of the summary table, and while the routes
\* are processed the results so far are those of the first k - 1 selected
\* routes.
C8_OneResultPerSelectedRoute ==
  /\ pc \in {"check", "excel"} =>
       RoutesOf(route_data) = ExpectedRoutes(summary_table)
  /\ pc \in {"route", "lookup", "click", "asset_rows", "assets"} =>
       LET expected == ExpectedRoutes(summary_table) IN
         /\ k - 1 <= Len(expected)
         /\ RoutesOf(route_data) = SubSeq(expected, 1, k - 1)

\* C8: two routes were returned, one of which failed and one of which had no
\* link.
C8_Witness ==
  /\ pc = "check"
  /\ Len(route_data) = 2
  /\ route_data[1].status = "Error"
  /\ route_data[2].status = "No Link Found"

\* C10: a route whose link was not found has status No Link Found and no
\* assets, raised nothing, was neither clicked nor left by go_back, and has
\* its result in the list, after which the loop is at the next route.
C10_NoLinkNoNavigation ==
  /\ Len(route_data) >= Len(audit)
  /\ \A n \in Finished :
       audit[n].lookup = "absent" =>
         /\ route_data[n].status = "No Link Found"
         /\ route_data[n].incomplete_assets = <<>>
         /\ ~audit[n].raised
         /\ audit[n].clicks = 0
         /\ audit[n].backs = 0
         /\ k > n

\* C10: a route without a link on the summary page was finished and the
\* route after it was then processed and found its link.
C10_Witness ==
  \E n \in Finished :
    /\ audit[n].lookup = "absent"
    /\ audit[n].on_summary
    /\ n < Len(audit)
    /\ audit[n + 1].lookup = "found"


(***************************************************************************)
(* C11.  When discovery returned no route, the except clause returns the   *)
(* failure dictionary whose error is 'No route data found': the result is  *)
(* never a success, the report step is never reached, and what the         *)
(* function returns, when it returns, is that dictionary.                  *)
(***************************************************************************)
EmptyDiscovery == "no_routes" \in events

C11_EmptyDiscoveryFails ==
  EmptyDiscovery =>
    /\ "excel" \notin events
    /\ pc \in {"except", "finally", "done"}
    /\ result.success = FALSE
    /\ pc = "except" => error = "No route data found"
    /\ pc = "finally" => result = failure_result("No route data found")
    /\ (pc = "done" /\ pending = "none") =>
          result = failure_result("No route data found")

C11_Witness ==
  /\ EmptyDiscovery
  /\ pc = "done"
  /\ pending = "none"
  /\ "rows" \in events
  /\ result = failure_result("No route data found")


(***************************************************************************)
(* C12.  A run whose report was written, with a route that ended in Error  *)
(* beside a route that ended Incomplete, returns a result whose success is *)
(* true and which shows the routes with their status.                      *)
(***************************************************************************)
HasStatus(data, st) == \E n \in 1..Len(data) : data[n].status = st

PartialSuccess ==
  /\ pc = "done"
  /\ pending = "none"
  /\ "excel_written" \in events
  /\ HasStatus(route_data, "Error")
  /\ HasStatus(route_data, "Incomplete")

C12_PartialSuccessReported ==
  PartialSuccess =>
    /\ result.kind = "dict"
    /\ result.success = TRUE
    /\ HasStatus(result.route_data, "Error")


(***************************************************************************)
(* C13.  Once cleanup_browser has been called, whatever setup_browser did  *)
(* before and however often cleanup_browser is called, the call did not    *)
(* raise, the driver is None, sys.stderr is the stream the process started *)
(* with and no longer saved, and no driver was quit twice.                 *)
(***************************************************************************)
QuitAtMostOnce ==
  \A m, n \in 1..Len(browser.quits) :
    browser.quits[m].driver = browser.quits[n].driver => m = n

StderrRestored == browser.sys_stderr = 0 /\ browser.original_stderr = NoStream

C13_CleanupIdempotent ==
  browser.last = "cleanup" =>
    /\ ~browser.raised
    /\ browser.driver = NoDriver
    /\ StderrRestored
    /\ QuitAtMostOnce


(***************************************************************************)
(* C14.  When the navigation to the summary page fails, no row is read, no *)
(* route is processed, the report step is not reached and the run ends as  *)
(* the failure 'Failed to navigate to routes summary'.  When the click on  *)
(* a route's link raises, that route alone ends: its Error result is       *)
(* appended, the results before it stay, no exception reaches the          *)
(* workflow, and the loop goes on with the next route.                     *)
(***************************************************************************)
NavigationFailed == "navigate_false" \in events

NavigationFailureMessage == "Failed to navigate to routes summary"

NavigationFailureEndsRun ==
  NavigationFailed =>
    /\ "rows" \notin events
    /\ rows = <<>> /\ selected_rows = {} /\ routes_with_missing = <<>>
    /\ audit = <<>> /\ route_data = <<>>
    /\ "excel" \notin events
    /\ result.success = FALSE
    /\ pc \in {"except", "finally", "done"}
    /\ pc = "except" => error = NavigationFailureMessage
    /\ pc = "finally" => result = failure_result(NavigationFailureMessage)
    /\ (pc = "done" /\ pending = "none") =>
          result = failure_result(NavigationFailureMessage)

ClickFailureEndsRoute ==
  (pc = "click" /\ pc' = "route") =>
    /\ route_data' = Append(route_data, error_info(route_info))
    /\ k' = k + 1
    /\ k' <= Len(routes_with_missing) + 1
    /\ routes_with_missing' = routes_with_missing
    /\ error' = error /\ pending' = pending /\ result' = result

C14_ScopedNavigationFailure ==
  /\ [] NavigationFailureEndsRun
  /\ [][ClickFailureEndsRoute]_vars

C14_Witness ==
  /\ NavigationFailed
  /\ pc = "done"
  /\ pending = "none"
  /\ cleanup_calls = 1
  /\ result = failure_result(NavigationFailureMessage)


(***************************************************************************)
(* C15.  The target date is computed, the summary page is navigated to,    *)
(* the routes are discovered and the report is written only in runs whose  *)
(* setup_and_login() returned true.  When it returned false or raised,     *)
(* none of these steps happens and the run ends as a failure: what the     *)
(* function returns, when it returns, is the failure dictionary.           *)
(***************************************************************************)
StepsAfterLogin ==
  {"date", "navigate_true", "navigate_false", "rows", "routes", "no_routes",
   "excel", "excel_written"}

PositionsAfterLogin ==
  {"date", "navigate", "rows", "scan", "route", "lookup", "click",
   "asset_rows", "assets", "check", "excel"}

LoginFailed == "login_false" \in events \/ "login_raised" \in events

LoginFailureMessage ==
  IF "login_false" \in events
  THEN "Failed to setup browser and login to SEED"
  ELSE "setup_and_login"

C15_LoginFailureIsFatal ==
  /\ (events \cap StepsAfterLogin # {} \/ pc \in PositionsAfterLogin) =>
       "login_true" \in events
  /\ LoginFailed =>
       /\ "login_true" \notin events
       /\ events \cap StepsAfterLogin = {}
       /\ rows = <<>> /\ route_data = <<>>
       /\ pc \in {"except", "finally", "done"}
       /\ result.success = FALSE
       /\ pc = "except" => error = LoginFailureMessage
       /\ pc = "finally" => result = failure_result(LoginFailureMessage)
       /\ (pc = "done" /\ pending = "none") =>
             result = failure_result(LoginFailureMessage)

C15_Witness ==
  /\ "login_false" \in events
  /\ pc = "done"
  /\ pending = "none"
  /\ scraper = TRUE
  /\ result = failure_result("Failed to setup browser and login to SEED")


(***************************************************************************)
(* The calendar, told without ordinals: the day before a date, and the day *)
(* of the week by Zeller's congruence (0 Saturday, 1 Sunday, 2 Monday ...).*)
(***************************************************************************)
LeapYear(y) == ((y % 4) = 0 /\ (y % 100) # 0) \/ (y % 400) = 0

LastDayOf(y, m) ==
  IF m \in {4, 6, 9, 11} THEN 30
  ELSE IF m = 2 THEN (IF LeapYear(y) THEN 29 ELSE 28)
  ELSE 31

DayBefore(dt) ==
  IF dt.day > 1 THEN Date(dt.year, dt.month, dt.day - 1)
  ELSE IF dt.month > 1
       THEN Date(dt.year, dt.month - 1, LastDayOf(dt.year, dt.month - 1))
       ELSE Date(dt.year - 1, 12, 31)

Zeller(dt) ==
  LET m == IF dt.month < 3 THEN dt.month + 12 ELSE dt.month
      y == IF dt.month < 3 THEN dt.year - 1 ELSE dt.year
  IN  (dt.day + ((13 * (m + 1)) \div 5) + (y % 100) + ((y % 100) \div 4)
         + ((y \div 100) \div 4) + (5 * (y \div 100))) % 7

IsMonday(dt) == Zeller(dt) = 2

IsBusinessDay(dt) == Zeller(dt) \in 2..6

\* a date written as YYYY-MM-DD
LastDigit(n) == DigitChars[(n % 10) + 1]

Written(dt) ==
  <<LastDigit(dt.year \div 1000), LastDigit(dt.year \div 100),
    LastDigit(dt.year \div 10), LastDigit(dt.year), "-",
    LastDigit(dt.month \div 10), LastDigit(dt.month), "-",
    LastDigit(dt.day \div 10), LastDigit(dt.day)>>

Returned == dates.pc = "returned"

(***************************************************************************)
(* C16.  Run on a Monday, get_previous_business_day returns the date three *)
(* days before the current date; run on any other day of the week, the     *)
(* date one day before.  Wednesday 2024-06-12 gives 2024-06-11 and Monday  *)
(* 2024-06-10 gives 2024-06-07.                                            *)
(***************************************************************************)
C16_DateRule ==
  Returned =>
    /\ dates.target_date =
         IF IsMonday(dates.today)
         THEN Written(DayBefore(DayBefore(DayBefore(dates.today))))
         ELSE Written(DayBefore(dates.today))
    /\ dates.today = Date(2024, 6, 12) =>
         dates.target_date = <<"2","0","2","4","-","0","6","-","1","1">>
    /\ dates.today = Date(2024, 6, 10) =>
         dates.target_date = <<"2","0","2","4","-","0","6","-","0","7">>

C16_Witness ==
  /\ Returned
  /\ dates.today = Date(2024, 6, 10)
  /\ dates.target_date = <<"2","0","2","4","-","0","6","-","0","7">>

(***************************************************************************)
(* C17.  On whatever day the program is run, the returned date is the      *)
(* previous business day: the Friday before when run on a Monday, and      *)
(* otherwise the day before, which is a day from Monday to Friday.         *)
(***************************************************************************)
C17_TargetIsPreviousBusinessDay ==
  Returned =>
    IF IsMonday(dates.today)
    THEN /\ dates.target_date = Written(DayBefore(DayBefore(DayBefore(dates.today))))
         /\ Zeller(DayBefore(DayBefore(DayBefore(dates.today)))) = 6
    ELSE /\ dates.target_date = Written(DayBefore(dates.today))
         /\ IsBusinessDay(DayBefore(dates.today))


(***************************************************************************)
(* C18.  Every URL the session asks for after its login carries the        *)
(* routing prefix of the page the login ended on, or the default prefix    *)
(* when that page has none; no URL carries another prefix.                 *)
(***************************************************************************)
DefaultPrefix == "cs4"

SessionPrefix ==
  IF seed.post_login_url.prefix # "" THEN seed.post_login_url.prefix
  ELSE DefaultPrefix

C18_UrlsCarrySessionPrefix ==
  \A n \in 1..Len(seed.requested) : seed.requested[n].prefix = SessionPrefix


(***************************************************************************)
(* C19.  No waiting loop goes on for ever: every call of a waiting         *)
(* operation returns.  While it is in its loop it has not waited longer    *)
(* than its timeout, give or take the pass in progress, and has made no    *)
(* more attempts than its retry bound; a call that gave up returned a      *)
(* failure value.                                                          *)
(***************************************************************************)
\* the longest single pass through a loop, in half seconds
LongestPass == 6 * PerSecond

WithinBound ==
  wait.bound # NoBound =>
    IF wait.kind = "click"
    THEN wait.attempt <= wait.bound
    ELSE wait.elapsed < wait.bound + LongestPass

GaveUpWithFailure ==
  (wait.pc = "done" /\ wait.timed_out) => wait.ret \in {"False", "None"}

C19_NoWaitBlocksIndefinitely ==
  /\ [](WithinBound /\ GaveUpWithFailure)
  /\ <>(wait.pc = "done")


(***************************************************************************)
(* C20.  Every result in route_data has one of the three statuses          *)
(* Incomplete, No Link Found and Error, and a result whose status is       *)
(* No Link Found or Error has no assets: only Incomplete results carry     *)
(* assets.                                                                 *)
(***************************************************************************)
Statuses == {"Incomplete", "No Link Found", "Error"}

C20_StatusDecidesAssets ==
  \A n \in 1..Len(route_data) :
    /\ route_data[n].status \in Statuses
    /\ route_data[n].incomplete_assets # <<>> =>
         route_data[n].status = "Incomplete"


(***************************************************************************)
(* C21.  all_assets is the concatenation, in route order, of the routes'   *)
(* asset lists in asset order, one row for each asset: while the loops run *)
(* it is the rows of the assets passed so far, and at the end it has as    *)
(* many rows as the routes have assets together.  Routes without assets    *)
(* add nothing, and route_data without any asset gives no row at all.      *)
(***************************************************************************)
RECURSIVE Concatenated(_, _)
Concatenated(data, n) ==
  IF n = 0 THEN <<>>
  ELSE Concatenated(data, n - 1) \o data[n].incomplete_assets

RECURSIVE TotalAssets(_, _)
TotalAssets(data, n) ==
  IF n = 0 THEN 0
  ELSE TotalAssets(data, n - 1) + Len(data[n].incomplete_assets)

\* the assets the loops have passed
Passed ==
  CASE report.pc = "routes" ->
         Concatenated(report.route_data, report.r - 1)
    [] report.pc = "assets" ->
         Concatenated(report.route_data, report.r - 1)
           \o SubSeq(report.route_data[report.r].incomplete_assets, 1, report.a - 1)
    [] OTHER -> Concatenated(report.route_data, Len(report.route_data))

RowOf(asset, row) ==
  /\ row["Asset ID"] = asset.asset_id
  /\ row["Location / Place"] = asset.location

C21_FlattenedInOrder ==
  /\ Len(report.all_assets) = Len(Passed)
  /\ \A n \in 1..Len(Passed) : RowOf(Passed[n], report.all_assets[n])
  /\ report.pc \in {"write", "done"} =>
       Len(report.all_assets) = TotalAssets(report.route_data, Len(report.route_data))
  /\ report.pc = "done" =>
       /\ Len(report.sheet) = Len(report.all_assets)
       /\ \A n \in 1..Len(report.sheet) :
            /\ report.sheet[n][1] = Passed[n].asset_id
            /\ report.sheet[n][2] = Passed[n].location

C21_Witness ==
  /\ report.pc = "done"
  /\ Len(report.route_data) = 2
  /\ report.route_data[1].incomplete_assets = <<>>
  /\ Len(report.route_data[2].incomplete_assets) = 2
  /\ report.route_data[2].incomplete_assets[1] # report.route_data[2].incomplete_assets[2]
  /\ Len(report.sheet) = 2


(***************************************************************************)
(* C22.  A discovery scan run again on the unchanged summary page finds    *)
(* the same (route_name, missing_count) pairs in the same order as every   *)
(* scan before it, and what a scan finds is what it finds on the table     *)
(* stripped of everything but the rows' name and count cells.              *)
(***************************************************************************)
\* a row with its link and every cell but the name and the count blanked
NameAndCountOnly(row) ==
  [row EXCEPT !.link = "none",
              !.cells = [n \in 1..Len(row.cells) |->
                           IF n \in {2, 5} THEN row.cells[n] ELSE Blank]]

RECURSIVE FoundUpTo(_, _)
FoundUpTo(table, n) ==
  IF n <= Offset THEN <<>>
  ELSE LET outcome == check_row(NameAndCountOnly(table[n])) IN
       FoundUpTo(table, n - 1) \o (IF outcome.selected THEN <<outcome.entry>> ELSE <<>>)

ScanFinished == pc = "route" /\ k = 1

C22_DiscoveryIdempotent ==
  /\ \A n \in 1..Len(scans) : scans[n] = FoundUpTo(summary_table, Len(summary_table))
  /\ ScanFinished =>
       /\ routes_with_missing = FoundUpTo(summary_table, Len(summary_table))
       /\ \A n \in 1..Len(scans) : scans[n] = routes_with_missing

C22_Witness ==
  /\ ScanFinished
  /\ Len(scans) = MaxScans - 1
  /\ Len(routes_with_missing) = 2
  /\ routes_with_missing[1] # routes_with_missing[2]
  /\ scans[1] = routes_with_missing



(***************************************************************************)
(* C23: every asset record handed from extraction to the aggregator        *)
(* carries the fields asset_id, location, type, restock_time and           *)
(* inventory_taken, and the inventory_taken value written for an asset is  *)
(* the raw status text extracted for that asset's row, not a default.      *)
(***************************************************************************)
AssetFields == {"asset_id", "location", "type", "restock_time", "inventory_taken"}

C23_AssetRecordsComplete ==
  \A n \in 1..Len(report.all_assets) :
    /\ AssetFields \subseteq DOMAIN Passed[n]
    /\ report.all_assets[n]["Inventory Req'd/Taken"] = Passed[n].status



(***************************************************************************)
(* C24: SeedBrowser.login returns True only on a path where the post-login *)
(* URL was checked to be on the portal domain and not a login page; on     *)
(* every other outcome (credentials rejected, form missing, any exception) *)
(* it returns False.                                                       *)
(***************************************************************************)
LoginReturned == seed.pc = "session"

UrlWasChecked == seed.login_path = "submitted"

OnPortalNotLoginPage(url) ==
  /\ url.host = Portal
  /\ \A n \in 1..Len(url.path) : url.path[n] # "Login"

C24_TrueOnlyAfterUrlCheck ==
  LoginReturned =>
    seed.login_ret = (UrlWasChecked /\ OnPortalNotLoginPage(seed.post_login_url))



(***************************************************************************)
(* C25: download_iad_report raises 'Failed to download IAD report'         *)
(* whenever download_seed_report reports failure (a response other than    *)
(* 200, or an exception of the request) and returns the file path only     *)
(* when the download succeeded; so the workflow never reads a report file  *)
(* that was not downloaded.                                                *)
(***************************************************************************)
DownloadReported == iad.pc \in {"returned", "raised", "read"} /\ iad.success # NoDownload

C25_FailedDownloadRaises ==
  /\ (DownloadReported /\ ~iad.success.success) =>
       iad.pc = "raised" /\ iad.exc = FailedToDownload /\ iad.ret = NoPath
  /\ iad.ret # NoPath => iad.success.success /\ iad.written
  /\ iad.pc = "read" => iad.read = "downloaded"



(***************************************************************************)
(* C26: safe_click makes at most max_retries click attempts, stops at the  *)
(* first attempt that succeeds and returns True, returns False when all    *)
(* attempts fail (max_retries = 0 included), and no exception of a click   *)
(* reaches the caller: the call ends with a return value.                  *)
(***************************************************************************)
ClickCall == wait.kind = "click"

ClickReturned == ClickCall /\ wait.pc = "done"

C26_ClickRetriesBounded ==
  ClickCall =>
    /\ wait.clicks <= wait.limit
    /\ wait.clicked => ClickReturned /\ wait.ret = "True"
    /\ wait.pc = "loop" => wait.clicks = wait.attempt
    /\ ClickReturned =>
         /\ wait.ret \in {"True", "False"}
         /\ wait.ret = "True" <=> wait.clicked
         /\ wait.ret = "False" => wait.clicks = wait.limit

C26_Witness ==
  /\ ClickReturned
  /\ wait.ret = "True"
  /\ wait.clicks = wait.limit
  /\ wait.limit >= 2



(***************************************************************************)
(* C27: after any sequence of setup_browser and cleanup_browser calls on a *)
(* headless scraper that ends with cleanup_browser (a setup that fails     *)
(* part-way and two setups without a cleanup between them included),       *)
(* sys.stderr is the stream the process started with, original_stderr is   *)
(* None, and stderr is not left on a null-device stream.                   *)
(***************************************************************************)
\* the null-device streams setup_browser has opened
NullStreams == 1..browser.streams

EndsWithCleanup == browser.pc # "idle" /\ browser.headless /\ browser.last = "cleanup"

C27_StderrRestoredAfterCleanup ==
  EndsWithCleanup =>
    /\ browser.sys_stderr \notin NullStreams
    /\ browser.original_stderr = NoStream
    /\ browser.sys_stderr = 0



(***************************************************************************)
(* C28: download_multiple_reports_concurrent, for every completion order   *)
(* of the workers: each report of the input list is in exactly one of the  *)
(* two returned lists, so the lengths of the lists add up to the length of *)
(* the input list; only the collecting thread appends, so no result is     *)
(* lost or duplicated.                                                     *)
(* As stated, for every call that ends: C28_EveryReportReturned.           *)
(* What holds: the lists hold the collected futures once each, a call that *)
(* returns has every report in exactly one list, and a call raises, with   *)
(* no list returned, exactly when the credentials are not set and there is *)
(* a report to download: C28_EveryCollectedReportOnce.                     *)
(***************************************************************************)
FuturesIn(list) == {list[n].future : n \in 1..Len(list)}

NoDuplicate(list) ==
  \A m, n \in 1..Len(list) : list[m].future = list[n].future => m = n

InExactlyOne(n, successful, failed) ==
  /\ n \in FuturesIn(successful) \cup FuturesIn(failed)
  /\ n \notin FuturesIn(successful) \cap FuturesIn(failed)

AllReportsIn(successful, failed) ==
  /\ \A n \in 1..Len(pool.reports_list) : InExactlyOne(n, successful, failed)
  /\ NoDuplicate(successful) /\ NoDuplicate(failed)
  /\ Len(successful) + Len(failed) = Len(pool.reports_list)

PoolCallEnded == pool.pc \in {"returned", "raised"}

C28_EveryReportReturned ==
  PoolCallEnded =>
    /\ pool.ret # NoLists
    /\ AllReportsIn(pool.ret[1], pool.ret[2])

CollectedOnce ==
  /\ NoDuplicate(pool.successful_downloads)
  /\ NoDuplicate(pool.failed_downloads)
  /\ FuturesIn(pool.successful_downloads) \cap FuturesIn(pool.failed_downloads) = {}
  /\ FuturesIn(pool.successful_downloads) \cup FuturesIn(pool.failed_downloads)
       = {n \in pool.yielded : pool.futures[n].outcome = "returned"}
  /\ \A n \in 1..Len(pool.successful_downloads) :
       LET e == pool.successful_downloads[n] IN
       e.result = pool.futures[e.future].result /\ e.result.success
  /\ \A n \in 1..Len(pool.failed_downloads) :
       LET e == pool.failed_downloads[n] IN
       e.result = pool.futures[e.future].result /\ ~e.result.success

C28_EveryCollectedReportOnce ==
  pool.pc # "idle" =>
    /\ CollectedOnce
    /\ pool.pc = "returned" =>
         /\ pool.ret = <<pool.successful_downloads, pool.failed_downloads>>
         /\ AllReportsIn(pool.ret[1], pool.ret[2])
    /\ pool.pc = "raised" =>
         /\ pool.ret = NoLists
         /\ ~pool.credentials
         /\ pool.reports_list # <<>>
    /\ (PoolCallEnded /\ (pool.credentials \/ pool.reports_list = <<>>)) =>
         pool.pc = "returned"

C28_Witness ==
  /\ pool.pc = "returned"
  /\ Len(pool.reports_list) = MaxReports
  /\ pool.reports_list[1] = pool.reports_list[2]
  /\ Len(pool.successful_downloads) = 1
  /\ pool.failed_downloads # <<>>
  /\ pool.failed_downloads[1].future = 1



(***************************************************************************)
(* C29: validate_prerequisites reports all_valid = True if and only if the *)
(* template file exists and the database connection test succeeds; hence   *)
(* get_stockout_processing_status reports ready_for_processing = True      *)
(* exactly in that case.                                                   *)
(***************************************************************************)
TemplateExists == stockout.template # "missing"

ConnectionTestSucceeds == stockout.lightspeed = "ok" /\ stockout.level = "ok"

C29_AllValidIffPrerequisites ==
  /\ stockout.pc \in {"validated", "done"} =>
       stockout.validation_results.all_valid
         = (TemplateExists /\ ConnectionTestSucceeds)
  /\ stockout.pc = "done" =>
       stockout.status.ready_for_processing
         = (TemplateExists /\ ConnectionTestSucceeds)



(***************************************************************************)
(* C30: MenuNavigator, after any sequence of key presses: the selected     *)
(* index is within 0..len(options)-1; Up from the first option goes to the *)
(* last and Down from the last to the first; navigate returns only on      *)
(* Enter, with the selected index, or on Q or q, with -1; every other key  *)
(* leaves the selection unchanged.                                         *)
(***************************************************************************)
PassEnded == menu.pc \in {"getch", "returned"} /\ menu.key # NoKey

ArrowPressed(letter) == menu.key \in ArrowPrefixes /\ menu.key2 = letter

OneUp == IF menu.before = 0 THEN menu.count - 1 ELSE menu.before - 1

OneDown == IF menu.before = menu.count - 1 THEN 0 ELSE menu.before + 1

C30_SelectionInRange ==
  menu.pc # "idle" =>
    /\ menu.selected \in 0..(menu.count - 1)
    /\ PassEnded =>
         menu.selected = CASE ArrowPressed("H") -> OneUp
                           [] ArrowPressed("P") -> OneDown
                           [] OTHER -> menu.before
    /\ menu.pc = "returned" <=>
         (PassEnded /\ menu.key \in EnterKeys \cup {"q", "Q"})
    /\ menu.pc = "returned" =>
         menu.ret = IF menu.key \in EnterKeys THEN menu.selected ELSE -1

C30_Witness ==
  /\ menu.pc = "getch"
  /\ ArrowPressed("H")
  /\ menu.before = 0
  /\ menu.count = MaxOptions
  /\ menu.selected = menu.count - 1
====
